---- MODULE Spec2Model ----
(***************************************************************************)
(* A model of the mirror synchronisation core of wiki-scripts:             *)
(*   - ws/db/execution.py      DeferrableExecutionQueue                    *)
(*   - ws/db/grabbers/page.py  GrabberPages (statements, generators)       *)
(* and of two caches of its tools:                                         *)
(*   - ws/core/meta.py         Meta (siteinfo, userinfo)                   *)
(*   - extlink-checker.py      ExtlinkStatusChecker.check_url              *)
(* Three specifications share the definitions:                             *)
(*   Spec        the queue alone, driven by arbitrary submits, with a      *)
(*               connection whose execute may raise                        *)
(*   SpecDiffer  one snapshot at a time turned into operations that are    *)
(*               applied to the store in the order they are emitted        *)
(*   SpecSync    one gen_update pass whose operations go through the queue *)
(***************************************************************************)
EXTENDS Integers, Sequences, FiniteSets, TLC

VARIABLES
    chunk_size,     \* DeferrableExecutionQueue.chunk_size
    ordered_keys,   \* DeferrableExecutionQueue.ordered_keys (list)
    stmt_queues,    \* DeferrableExecutionQueue.stmt_queues (dict statement -> list)
    conn_log,       \* every call of conn.execute, in order (history)
    pc,             \* "open" | "raised" | "closed": where the with-block is
    exc,            \* the exception in flight / propagated out of the scope
    ncalls,         \* number of DeferrableExecutionQueue.execute calls so far
    nsub,           \* number of parameter sets handed to execute so far
    first_seen,     \* history: statement -> number of the call that introduced it
    round,          \* history: number of conn rounds (immediate calls and flushes)
    db,             \* the backing store (see EmptyDb)
    db0,            \* history: the store when the pass began
    generator_stop, \* the interpreter enforces PEP 479 (Python >= 3.7)
    full,           \* gen_update: rc_oldest > since
    remote,         \* pageid -> the snapshot the API returns during the pass
    pages,          \* gen_update: ids of `pages` not fetched yet
    listing,        \* gen_insert: ids the allpages generator has not returned yet
    phase,          \* "idle" | "pages" | "allpages" | "end": where gen_update is
    gen,            \* operations of the current snapshot not yielded yet
    rng,            \* the values random.random() may return
    emitted,        \* history: the operations yielded so far, with their page
    watermark,      \* the persisted timestamp of the last completed pass
    since,          \* gen_update(since): the watermark read when the pass began
    start,          \* the time at which the current pass began
    clock,          \* the time of the remote wiki
    rc,             \* the rows of the recentchanges table
    le,             \* the rows of the logging table (log events)
    rc_oldest,      \* recentchanges.oldest_rc_timestamp(db)
    le_oldest,      \* the timestamp of the oldest row the logging table keeps
    requests,       \* history: the pageids queries of the pass (SpecFetch)
    candidates,     \* history: the set of page ids change discovery returned
    history,        \* history: one record for every pass that has ended
    timeout,        \* Meta.timeout (seconds), set by the subclass
    volatile_timeout, \* Meta.volatile_timeout (seconds), set by the subclass
    _values,        \* Meta._values (dict property -> value)
    _timestamps,    \* Meta._timestamps (dict property -> time of the fetch)
    utcnow,         \* datetime.datetime.utcnow(), in seconds
    site,           \* property -> the value the wiki holds for it now
    api_calls,      \* history: number of calls of self._api.call_api
    got,            \* history: the last call of Meta.__getattr__ and its outcome
    cache_valid_urls,         \* ExtlinkStatusChecker.cache_valid_urls
    cache_invalid_urls,       \* ExtlinkStatusChecker.cache_invalid_urls
    cache_indeterminate_urls, \* ExtlinkStatusChecker.cache_indeterminate_urls
    nrequests,      \* history: url -> number of calls of session.get for it
    checked         \* history: the last call of check_url and its outcome

qvars == <<chunk_size, ordered_keys, stmt_queues, conn_log, pc, exc, ncalls,
           nsub, first_seen, round>>

svars == <<db, db0, generator_stop, full, remote, pages, listing, phase, gen,
           rng, emitted>>

mvars == <<timeout, volatile_timeout, _values, _timestamps, utcnow, site,
           api_calls, got>>

xvars == <<cache_valid_urls, cache_invalid_urls, cache_indeterminate_urls,
           nrequests, checked>>

tvars == <<mvars, xvars>>

wvars == <<watermark, since, start, clock, rc, le, rc_oldest, le_oldest,
           requests, candidates, history>>

ovars == <<wvars, tvars>>

vars == <<qvars, svars, ovars>>

-----------------------------------------------------------------------------
(* Bounds *)

MaxChunk == 3
MaxCalls == 4
MaxMulti == 2

\* statement keys of the queue specification
Keys == {"A", "B", "C"}

-----------------------------------------------------------------------------
(* Sequence helpers *)

Range(s) == {s[i] : i \in 1..Len(s)}

InSeq(x, s) == \E i \in 1..Len(s) : s[i] = x

\* position of the first occurrence of x in s (0 when absent)
IndexOf(x, s) == IF InSeq(x, s) THEN CHOOSE i \in 1..Len(s) :
                                        s[i] = x /\ \A j \in 1..(i-1) : s[j] # x
                 ELSE 0

IsPrefix(s, t) == Len(s) <= Len(t) /\ \A i \in 1..Len(s) : s[i] = t[i]

Tail0(s, n) == SubSeq(s, n + 1, Len(s))

-----------------------------------------------------------------------------
(* DeferrableExecutionQueue *)

\* the empty dict
EmptyQueues == [k \in {} |-> <<>>]

\* execute, lines 48-49: a statement joins ordered_keys the first time only
MutAppendKeyMovesLast(keys, statement) ==
    Append(SelectSeq(keys, LAMBDA k : k # statement), statement)

AppendKey(keys, statement) ==
    IF InSeq(statement, keys) THEN keys ELSE Append(keys, statement)

\* execute, lines 50-54: q = setdefault(statement, []); q += multiparams
Enqueue(queues, statement, multiparams) ==
    [k \in DOMAIN queues \cup {statement} |->
        IF k = statement
        THEN (IF statement \in DOMAIN queues THEN queues[statement] ELSE <<>>)
             \o multiparams
        ELSE queues[k]]

\* execute, line 56: the flush condition
QueueFull(q) == Len(q) >= chunk_size

\* execute_deferred, lines 63-64: the statements of one round, in the order
\* of ordered_keys, those that have an entry in stmt_queues
MutDeferredUnordered(keys, queues) ==
    LET inq == SelectSeq(keys, LAMBDA s : s \in DOMAIN queues)
    IN  [i \in 1..Len(inq) |-> inq[Len(inq) + 1 - i]]

MutDeferredFullOnly(keys, queues) ==
    SelectSeq(keys, LAMBDA s : s \in DOMAIN queues /\ QueueFull(queues[s]))

Deferred(keys, queues) ==
    SelectSeq(keys, LAMBDA s : s \in DOMAIN queues)

\* execute_deferred, line 65: conn.execute(statement, self.stmt_queues[statement])
DeferredCalls(keys, queues) ==
    LET d == Deferred(keys, queues)
    IN  [i \in 1..Len(d) |-> [statement |-> d[i], params |-> queues[d[i]]]]

\* The calls of one round as the connection sees them.  r = 0: none raises;
\* r > 0: call number r raises, and the calls after it are never made.
\* cause ("immediate", "chunk", "exit") and rnd are history.
Logged(calls, r, cause, rnd) ==
    LET n == IF r = 0 THEN Len(calls) ELSE r
    IN  [i \in 1..n |-> [statement |-> calls[i].statement,
                         params    |-> calls[i].params,
                         raised    |-> (i = r),
                         cause     |-> cause,
                         round     |-> rnd]]

\* execute_deferred, line 68: stmt_queues.clear() runs only when the loop
\* of line 63 ended without an exception
AfterRound(queues, r) == IF r = 0 THEN EmptyQueues ELSE queues

\* __exit__, lines 73-74: returns None, so the exception of the body is
\* re-raised, unless execute_deferred itself raised
MutExitSwallows(before, r) == IF r = 0 THEN "none" ELSE "exit"

ExitException(before, r) == IF r = 0 THEN before ELSE "exit"

QInit ==
    /\ chunk_size \in 1..MaxChunk
    /\ ordered_keys = <<>>
    /\ stmt_queues = EmptyQueues
    /\ conn_log = <<>>
    /\ pc = "open"
    /\ exc = "none"
    /\ ncalls = 0
    /\ nsub = 0
    /\ first_seen = EmptyQueues
    /\ round = 0

\* history: the call that first submitted each statement
NoteFirstSeen(statement) ==
    first_seen' = IF statement \in DOMAIN first_seen THEN first_seen
                  ELSE [k \in DOMAIN first_seen \cup {statement} |->
                          IF k = statement THEN ncalls + 1 ELSE first_seen[k]]

\* DeferrableExecutionQueue.execute(statement, *multiparams, **params) with
\* the parameter sets mp; r chooses the conn.execute call that raises
MutQExecuteAlwaysQueues(statement, mp, r) ==
    /\ pc = "open"
    /\ ncalls' = ncalls + 1
    /\ NoteFirstSeen(statement)
    /\ UNCHANGED chunk_size
    /\ LET keys == AppendKey(ordered_keys, statement)
           q1   == Enqueue(stmt_queues, statement, mp)
           calls == DeferredCalls(keys, q1)
       IN  /\ ordered_keys' = keys
           /\ IF QueueFull(q1[statement])
              THEN /\ r \in 0..Len(calls)
                   /\ conn_log' = conn_log \o
                         Logged(calls, r, "chunk", round + 1)
                   /\ round' = round + 1
                   /\ stmt_queues' = AfterRound(q1, r)
                   /\ pc' = IF r = 0 THEN "open" ELSE "raised"
                   /\ exc' = IF r = 0 THEN exc ELSE "execute"
              ELSE /\ r = 0
                   /\ stmt_queues' = q1
                   /\ UNCHANGED <<conn_log, round, pc, exc>>

QExecute(statement, mp, r) ==
    /\ pc = "open"
    /\ ncalls' = ncalls + 1
    /\ NoteFirstSeen(statement)
    /\ UNCHANGED chunk_size
    /\ IF chunk_size = 1
       THEN /\ r \in 0..1
            /\ conn_log' = conn_log \o
                  Logged(<<[statement |-> statement, params |-> mp]>>, r,
                         "immediate", round + 1)
            /\ round' = round + 1
            /\ UNCHANGED <<ordered_keys, stmt_queues>>
            /\ pc' = IF r = 0 THEN "open" ELSE "raised"
            /\ exc' = IF r = 0 THEN exc ELSE "execute"
       ELSE LET keys == AppendKey(ordered_keys, statement)
                q1   == Enqueue(stmt_queues, statement, mp)
                calls == DeferredCalls(keys, q1)
            IN  /\ ordered_keys' = keys
                /\ IF QueueFull(q1[statement])
                   THEN /\ r \in 0..Len(calls)
                        /\ conn_log' = conn_log \o
                              Logged(calls, r, "chunk", round + 1)
                        /\ round' = round + 1
                        /\ stmt_queues' = AfterRound(q1, r)
                        /\ pc' = IF r = 0 THEN "open" ELSE "raised"
                        /\ exc' = IF r = 0 THEN exc ELSE "execute"
                   ELSE /\ r = 0
                        /\ stmt_queues' = q1
                        /\ UNCHANGED <<conn_log, round, pc, exc>>

\* DeferrableExecutionQueue.__exit__: runs when the with-block is left,
\* normally (pc = "open") or by an exception (pc = "raised")
QExit(r) ==
    /\ pc \in {"open", "raised"}
    /\ LET calls == DeferredCalls(ordered_keys, stmt_queues)
       IN  /\ r \in 0..Len(calls)
           /\ conn_log' = conn_log \o Logged(calls, r, "exit", round + 1)
           /\ round' = round + 1
           /\ stmt_queues' = AfterRound(stmt_queues, r)
           /\ exc' = ExitException(exc, r)
           /\ pc' = "closed"
    /\ UNCHANGED <<chunk_size, ordered_keys, ncalls, nsub, first_seen>>

-----------------------------------------------------------------------------
(* The backing store: the tables of ws.db the statements touch.            *)
(*   page              pageid -> row                                        *)
(*   page_props        <<pp_page, pp_propname>> -> pp_value                 *)
(*   page_restrictions <<pr_page, pr_type>> -> row                          *)
(*   revision          set of rows                                          *)
(*   archive           rows without the surrogate key ar_id, which the      *)
(*                     store assigns: a bag, row -> number of copies        *)
(*   violations        foreign-key violations the store met (a dependent    *)
(*                     row written for a page that has no row)              *)

EmptyTable == [k \in {} |-> 0]

EmptyDb == [page |-> EmptyTable, page_props |-> EmptyTable,
            page_restrictions |-> EmptyTable, revision |-> {},
            archive |-> EmptyTable, violations |-> {}]

\* t with key k set to v (insert, or overwrite on conflict)
Upsert(t, k, v) == [x \in DOMAIN t \cup {k} |-> IF x = k THEN v ELSE t[x]]

\* t without the keys that satisfy Gone
DeleteWhere(t, Gone(_)) == [x \in {y \in DOMAIN t : ~Gone(y)} |-> t[x]]

BagAdd(b, rows) ==
    [x \in DOMAIN b \cup rows |->
        (IF x \in DOMAIN b THEN b[x] ELSE 0) + (IF x \in rows THEN 1 ELSE 0)]

\* the statements of GrabberPages.__init__ (self.sql) and the two deletes
\* built in gen_deletes_from_page
Sql(op, table) == [op |-> op, table |-> table]

NotIn(table, pageid, keep) ==
    [op |-> "delete-notin", table |-> table, page |-> pageid, keep |-> keep]

\* ("insert", "page"): insert, on conflict of the primary key overwrite
\* every column but page_id
MutInsertPageDoNothing(d, e) ==
    IF e.page_id \in DOMAIN d.page THEN d
    ELSE [d EXCEPT !.page = Upsert(d.page, e.page_id,
             [f \in DOMAIN e \ {"page_id"} |-> e[f]])]

InsertPage(d, e) ==
    [d EXCEPT !.page = Upsert(d.page, e.page_id,
        [page_namespace     |-> e.page_namespace,
         page_title         |-> e.page_title,
         page_is_redirect   |-> e.page_is_redirect,
         page_is_new        |-> e.page_is_new,
         page_random        |-> e.page_random,
         page_touched       |-> e.page_touched,
         page_links_updated |-> e.page_links_updated,
         page_latest        |-> e.page_latest,
         page_len           |-> e.page_len,
         page_content_model |-> e.page_content_model,
         page_lang          |-> e.page_lang])]

\* ("insert", "page_props"): on conflict of (pp_page, pp_propname) set pp_value
InsertPageProps(d, e) ==
    IF e.pp_page \notin DOMAIN d.page
    THEN [d EXCEPT !.violations = @ \cup {<<"page_props", e.pp_page>>}]
    ELSE [d EXCEPT !.page_props =
              Upsert(d.page_props, <<e.pp_page, e.pp_propname>>, e.pp_value)]

\* ("insert", "page_restrictions"): on conflict of (pr_page, pr_type) set the
\* other columns
InsertPageRestrictions(d, e) ==
    IF e.pr_page \notin DOMAIN d.page
    THEN [d EXCEPT !.violations = @ \cup {<<"page_restrictions", e.pr_page>>}]
    ELSE [d EXCEPT !.page_restrictions =
              Upsert(d.page_restrictions, <<e.pr_page, e.pr_type>>,
                     [pr_level   |-> e.pr_level,
                      pr_cascade |-> e.pr_cascade,
                      pr_user    |-> e.pr_user,
                      pr_expiry  |-> e.pr_expiry])]

\* ("delete", "page"); the rows of page_props and page_restrictions that
\* reference the page go with it (cascade, lines 174-175)
DeletePage(d, e) ==
    [d EXCEPT !.page = DeleteWhere(d.page, LAMBDA k : k = e.b_page_id),
              !.page_props =
                  DeleteWhere(d.page_props, LAMBDA k : k[1] = e.b_page_id),
              !.page_restrictions =
                  DeleteWhere(d.page_restrictions, LAMBDA k : k[1] = e.b_page_id)]

\* ("delete-but-one", table): rows of the page whose name differs
MutDeleteButOneAsAll(t, pageid, name) ==
    DeleteWhere(t, LAMBDA k : k[1] = pageid)

DeleteButOne(t, pageid, name) ==
    DeleteWhere(t, LAMBDA k : k[1] = pageid /\ k[2] # name)

\* ("delete-all", table): every row of the page
DeleteAll(t, pageid) == DeleteWhere(t, LAMBDA k : k[1] = pageid)

\* delete ... where page = pageid and name not in keep
DeleteNotIn(t, pageid, keep) ==
    DeleteWhere(t, LAMBDA k : k[1] = pageid /\ k[2] \notin keep)

\* ("move", "revision"): the rows of revision with rev_page = b_rev_page are
\* deleted and returned; joined with the page row of that id they are
\* inserted into archive.  Without a page row the join is empty.
MutMoveCopies(d, e) ==
    LET gone == {r \in d.revision : r.rev_page = e.b_rev_page}
        rows == {[ar_namespace |-> d.page[r.rev_page].page_namespace,
                  ar_title     |-> d.page[r.rev_page].page_title,
                  ar_rev_id    |-> r.rev_id,
                  ar_page_id   |-> r.rev_page,
                  ar_fields    |-> r.rev_fields] :
                    r \in {x \in gone : x.rev_page \in DOMAIN d.page}}
    IN  [d EXCEPT !.archive = BagAdd(d.archive, rows)]

\* a left join that leaves the rows in revision
MutMoveLeftJoinCopies(d, e) ==
    LET gone == {r \in d.revision : r.rev_page = e.b_rev_page}
        rows == {[ar_namespace |-> IF r.rev_page \in DOMAIN d.page
                                   THEN d.page[r.rev_page].page_namespace
                                   ELSE 0,
                  ar_title     |-> IF r.rev_page \in DOMAIN d.page
                                   THEN d.page[r.rev_page].page_title
                                   ELSE <<"dbtitle", <<"", 0>>, 0>>,
                  ar_rev_id    |-> r.rev_id,
                  ar_page_id   |-> r.rev_page,
                  ar_fields    |-> r.rev_fields] : r \in gone}
    IN  [d EXCEPT !.archive = BagAdd(d.archive, rows)]

MoveRevision(d, e) ==
    LET gone == {r \in d.revision : r.rev_page = e.b_rev_page}
        rows == {[ar_namespace |-> d.page[r.rev_page].page_namespace,
                  ar_title     |-> d.page[r.rev_page].page_title,
                  ar_rev_id    |-> r.rev_id,
                  ar_page_id   |-> r.rev_page,
                  ar_fields    |-> r.rev_fields] :
                    r \in {x \in gone : x.rev_page \in DOMAIN d.page}}
    IN  [d EXCEPT !.revision = d.revision \ gone,
                  !.archive = BagAdd(d.archive, rows)]

\* one execution of a statement with one parameter set (e is <<>> for the
\* statements that carry their values themselves)
ExecuteOne(d, s, e) ==
    CASE s = Sql("insert", "page") -> InsertPage(d, e)
      [] s = Sql("insert", "page_props") -> InsertPageProps(d, e)
      [] s = Sql("insert", "page_restrictions") -> InsertPageRestrictions(d, e)
      [] s = Sql("delete", "page") -> DeletePage(d, e)
      [] s = Sql("delete-but-one", "page_props") ->
            [d EXCEPT !.page_props =
                DeleteButOne(d.page_props, e.b_pp_page, e.b_pp_propname)]
      [] s = Sql("delete-all", "page_props") ->
            [d EXCEPT !.page_props = DeleteAll(d.page_props, e.b_pp_page)]
      [] s = Sql("delete-but-one", "page_restrictions") ->
            [d EXCEPT !.page_restrictions =
                DeleteButOne(d.page_restrictions, e.b_pr_page, e.b_pr_type)]
      [] s = Sql("delete-all", "page_restrictions") ->
            [d EXCEPT !.page_restrictions =
                DeleteAll(d.page_restrictions, e.b_pr_page)]
      [] s = Sql("move", "revision") -> MoveRevision(d, e)
      [] s.op = "delete-notin" /\ s.table = "page_props" ->
            [d EXCEPT !.page_props =
                DeleteNotIn(d.page_props, s.page, s.keep)]
      [] s.op = "delete-notin" /\ s.table = "page_restrictions" ->
            [d EXCEPT !.page_restrictions =
                DeleteNotIn(d.page_restrictions, s.page, s.keep)]

\* conn.execute(statement, params): the statement runs once for every
\* parameter set, in order (executemany); with no parameter set it runs once
RECURSIVE ExecuteMany(_, _, _)
ExecuteMany(d, s, params) ==
    IF params = <<>> THEN d
    ELSE ExecuteMany(ExecuteOne(d, s, Head(params)), s, Tail(params))

ConnExecute(d, call) ==
    IF call.params = <<>> THEN ExecuteOne(d, call.statement, <<>>)
    ELSE ExecuteMany(d, call.statement, call.params)

\* the calls of one round applied to the store in order
RECURSIVE ConnExecuteAll(_, _)
ConnExecuteAll(d, calls) ==
    IF calls = <<>> THEN d
    ELSE ConnExecuteAll(ConnExecute(d, Head(calls)), Tail(calls))

-----------------------------------------------------------------------------
(* GrabberPages: the generators.  A snapshot (page) is the dict the API      *)
(* returns: a record whose DOMAIN is the set of keys present, so that        *)
(* `"missing" in page` is "missing" \in DOMAIN page.                         *)

Has(dict, key) == key \in DOMAIN dict

\* Title(api, title).dbtitle(ns): the database form of a title; the Title
\* class is outside the sources, the conversion is left uninterpreted
DbTitle(title, ns) == <<"dbtitle", title, ns>>

\* the order in which page["pageprops"].items() and the sets of
\* gen_deletes_from_page are walked (any order gives the same rows)
PropOrder == <<"a", "b", "c">>

\* a yielded (statement, db_entry) pair, and a yielded bare statement
Op(statement, entry) == [statement |-> statement, params |-> <<entry>>]

BareOp(statement) == [statement |-> statement, params |-> <<>>]

\* page.get("pageprops", {})
PageProps(page) == IF Has(page, "pageprops") THEN page.pageprops ELSE EmptyTable

\* gen_inserts_from_page, lines 121-141
PageEntry(page, rnd) ==
    [page_id            |-> page.pageid,
     page_namespace     |-> page.ns,
     page_title         |-> DbTitle(page.title, page.ns),
     page_is_redirect   |-> Has(page, "redirect"),
     page_is_new        |-> Has(page, "new"),
     page_random        |-> rnd,
     page_touched       |-> page.touched,
     page_links_updated |-> "NULL",
     page_latest        |-> page.lastrevid,
     page_len           |-> page.length,
     page_content_model |-> page.contentmodel,
     page_lang          |-> page.pagelanguage]

\* gen_inserts_from_page, lines 143-152
PropsInserts(page) ==
    LET names == SelectSeq(PropOrder, LAMBDA n : n \in DOMAIN PageProps(page))
    IN  [i \in 1..Len(names) |->
            Op(Sql("insert", "page_props"),
               [pp_page     |-> page.pageid,
                pp_propname |-> names[i],
                pp_value    |-> PageProps(page)[names[i]]])]

\* gen_inserts_from_page, lines 154-166: entries with a "source" key are
\* caused by cascading protection and are dropped
Direct(protection) == SelectSeq(protection, LAMBDA pr : ~Has(pr, "source"))

RestrictionsInserts(page) ==
    LET prs == Direct(page.protection)
    IN  [i \in 1..Len(prs) |->
            Op(Sql("insert", "page_restrictions"),
               [pr_page    |-> page.pageid,
                pr_type    |-> prs[i].type,
                pr_level   |-> prs[i].level,
                pr_cascade |-> Has(prs[i], "cascade"),
                pr_user    |-> "NULL",
                pr_expiry  |-> prs[i].expiry])]

\* line 119, `raise StopIteration` inside a generator: the generator just
\* ends where the interpreter predates PEP 479 (Python <= 3.6 without
\* generator_stop), and raises RuntimeError where PEP 479 is in force
StopIterationInGenerator(pep479) ==
    IF pep479 THEN "RuntimeError" ELSE "none"

\* gen_inserts_from_page: the operations yielded, and the error that ends
\* the generator ("none": it ends normally)
\* the keys of the snapshot that lines 121-141 subscript before the first
\* yield: page["title"] and the values of db_entry
EntryKeys ==
    {"title", "pageid", "ns", "touched", "lastrevid", "length",
     "contentmodel", "pagelanguage"}

\* a snapshot without one of these keys yields nothing and ends the generator
\* without an error
MutGenInsertsSkipsShapeless(page, rnd, pep479) ==
    IF Has(page, "missing")
    THEN [ops |-> <<>>, error |-> StopIterationInGenerator(pep479)]
    ELSE IF ~(EntryKeys \subseteq DOMAIN page)
    THEN [ops |-> <<>>,
          error |-> IF Has(page, "pageid") /\ Has(page, "protection")
                    THEN "none" ELSE "KeyError"]
    ELSE IF ~Has(page, "protection")
    THEN [ops |-> <<Op(Sql("insert", "page"), PageEntry(page, rnd))>>
                  \o PropsInserts(page),
          error |-> "KeyError"]
    ELSE [ops |-> <<Op(Sql("insert", "page"), PageEntry(page, rnd))>>
                  \o PropsInserts(page) \o RestrictionsInserts(page),
          error |-> "none"]

\* a subscript of a key the snapshot lacks raises KeyError: before the
\* first yield for the keys of line 121 and of db_entry, after the page and
\* property upserts for page["protection"] (line 155); page.get("pageprops",
\* {}) on line 144 raises nothing
GenInsertsFromPage(page, rnd, pep479) ==
    IF Has(page, "missing")
    THEN [ops |-> <<>>, error |-> StopIterationInGenerator(pep479)]
    ELSE IF ~(EntryKeys \subseteq DOMAIN page)
    THEN [ops |-> <<>>, error |-> "KeyError"]
    ELSE IF ~Has(page, "protection")
    THEN [ops |-> <<Op(Sql("insert", "page"), PageEntry(page, rnd))>>
                  \o PropsInserts(page),
          error |-> "KeyError"]
    ELSE [ops |-> <<Op(Sql("insert", "page"), PageEntry(page, rnd))>>
                  \o PropsInserts(page) \o RestrictionsInserts(page),
          error |-> "none"]

\* gen_deletes_from_page, lines 178-192 and 194-208: the delete of the
\* rows whose name is not in keep, chosen by the size of keep
KeepDelete(table, pageid, keep) ==
    LET b_page == IF table = "page_props" THEN "b_pp_page" ELSE "b_pr_page"
        b_name == IF table = "page_props" THEN "b_pp_propname" ELSE "b_pr_type"
    IN  IF keep # {}
        THEN IF Cardinality(keep) = 1
             THEN Op(Sql("delete-but-one", table),
                     [k \in {b_page, b_name} |->
                        IF k = b_page THEN pageid ELSE CHOOSE n \in keep : TRUE])
             ELSE BareOp(NotIn(table, pageid, keep))
        ELSE Op(Sql("delete-all", table), [k \in {b_page} |-> pageid])

\* line 179: props = set(page.get("pageprops", {}))
KeepProps(page) == DOMAIN PageProps(page)

\* line 195: applied = set(pr["type"] for pr in page["protection"])
Applied(page) == {page.protection[i].type : i \in 1..Len(page.protection)}

\* gen_deletes_from_page
MutDeletesBeforeMove(page) ==
    IF Has(page, "missing")
    THEN <<Op(Sql("delete", "page"), [b_page_id |-> page.pageid]),
           Op(Sql("move", "revision"), [b_rev_page |-> page.pageid])>>
    ELSE <<KeepDelete("page_props", page.pageid, KeepProps(page)),
           KeepDelete("page_restrictions", page.pageid, Applied(page))>>

GenDeletesFromPage(page) ==
    IF Has(page, "missing")
    THEN <<Op(Sql("move", "revision"), [b_rev_page |-> page.pageid]),
           Op(Sql("delete", "page"), [b_page_id |-> page.pageid])>>
    ELSE <<KeepDelete("page_props", page.pageid, KeepProps(page)),
           KeepDelete("page_restrictions", page.pageid, Applied(page))>>

\* the generator raising: an item of the stream that is not an operation
Raise(error) == [raise |-> error]

\* history: the page an item of the stream belongs to (0: the snapshot has
\* no "pageid")
PageTag(page) == IF Has(page, "pageid") THEN page.pageid ELSE 0

\* gen_update, lines 246-248: what one snapshot contributes to the stream
UpdateStream(page, rnd, pep479) ==
    LET ins == GenInsertsFromPage(page, rnd, pep479)
    IN  [i \in 1..Len(ins.ops) |-> [page |-> PageTag(page), op |-> ins.ops[i]]]
        \o (IF ins.error # "none"
            THEN <<[page |-> PageTag(page), op |-> Raise(ins.error)]>>
            ELSE LET del == GenDeletesFromPage(page)
                 IN  [i \in 1..Len(del) |-> [page |-> PageTag(page), op |-> del[i]]])

\* gen_insert, lines 222-223: what one listed snapshot contributes
MutInsertStreamWithDeletes(page, rnd, pep479) == UpdateStream(page, rnd, pep479)

InsertStream(page, rnd, pep479) ==
    LET ins == GenInsertsFromPage(page, rnd, pep479)
    IN  [i \in 1..Len(ins.ops) |-> [page |-> PageTag(page), op |-> ins.ops[i]]]
        \o (IF ins.error # "none"
            THEN <<[page |-> PageTag(page), op |-> Raise(ins.error)]>>
            ELSE <<>>)

-----------------------------------------------------------------------------
(* Spec: the queue under arbitrary submits *)

\* the caller submits a statement with n fresh parameter sets
\* (n = 0: a bare statement)
Execute ==
    /\ ncalls < MaxCalls
    /\ \E statement \in Keys, n \in 0..MaxMulti, r \in 0..Cardinality(Keys) :
          /\ QExecute(statement, [i \in 1..n |-> nsub + i], r)
          /\ nsub' = nsub + n
    /\ UNCHANGED svars
    /\ UNCHANGED ovars

\* the code inside the with-block raises an exception of its own
BodyRaises ==
    /\ pc = "open"
    /\ pc' = "raised"
    /\ exc' = "body"
    /\ UNCHANGED <<chunk_size, ordered_keys, stmt_queues, conn_log, ncalls,
                   nsub, first_seen, round>>
    /\ UNCHANGED svars
    /\ UNCHANGED ovars

Exit ==
    /\ \E r \in 0..Cardinality(Keys) : QExit(r)
    /\ UNCHANGED svars
    /\ UNCHANGED ovars

\* the empty dict of Meta and of the request counters
NoValues == [k \in {} |-> 0]

\* Meta.__init__, lines 19-22, with the class attributes of lines 16-17; no
\* attribute has been asked for yet
MIdle ==
    /\ timeout = 0 /\ volatile_timeout = 0
    /\ _values = NoValues /\ _timestamps = NoValues
    /\ utcnow = 0
    /\ site = NoValues
    /\ api_calls = 0
    /\ got = [n |-> 0, attr |-> "-", outcome |-> "none", value |-> 0]

\* ExtlinkStatusChecker.__init__, lines 39-44; no URL has been checked yet
XIdle ==
    /\ cache_valid_urls = {}
    /\ cache_invalid_urls = {}
    /\ cache_indeterminate_urls = {}
    /\ nrequests = NoValues
    /\ checked = [n |-> 0, url |-> "-", verdict |-> "none",
                  requested |-> FALSE,
                  outcome |-> [kind |-> "none", status |-> 0, class |-> "-",
                               message |-> <<>>, dns |-> FALSE]]

\* the tools are not in use
TIdle == MIdle /\ XIdle

\* the feeds and the watermark of a single pass: nothing recorded, and the
\* oldest retained change later than `since` exactly when the pass is FULL
OSingle(isfull, ids) ==
    /\ watermark = 0 /\ since = 0 /\ start = 0 /\ clock = 0
    /\ rc = {} /\ le = {}
    /\ rc_oldest = (IF isfull THEN 1 ELSE 0)
    /\ le_oldest = 0
    /\ requests = <<>>
    /\ candidates = ids
    /\ history = <<>>

\* no pass is running
SIdle ==
    /\ db = EmptyDb /\ db0 = EmptyDb
    /\ generator_stop = FALSE /\ full = FALSE
    /\ remote = EmptyTable /\ pages = {} /\ listing = {}
    /\ phase = "idle" /\ gen = <<>> /\ rng = {} /\ emitted = <<>>

Init == QInit /\ SIdle /\ OSingle(FALSE, {}) /\ TIdle

Next == Execute \/ BodyRaises \/ Exit

Spec == Init /\ [][Next]_vars

-----------------------------------------------------------------------------
(* One pass of GrabberPages.gen_update whose operations are handed to the   *)
(* queue inside its with-block                                               *)

\* the next snapshot of `pages` comes back from the API (lines 239-248)
FetchPage ==
    /\ pc = "open" /\ phase = "pages" /\ gen = <<>>
    /\ \E id \in pages, rnd \in rng :
          /\ gen' = UpdateStream(remote[id], rnd, generator_stop)
          /\ pages' = pages \ {id}
    /\ UNCHANGED <<qvars, db, db0, generator_stop, full, remote, listing,
                   phase, rng, emitted>>
    /\ UNCHANGED ovars

\* the consumer takes the next yielded operation and submits it:
\* dfe.execute(statement, db_entry), or dfe.execute(statement) for a bare one
Yield ==
    /\ pc = "open" /\ gen # <<>>
    /\ ~Has(Head(gen).op, "raise")
    /\ QExecute(Head(gen).op.statement, Head(gen).op.params, 0)
    /\ nsub' = nsub + Len(Head(gen).op.params)
    /\ db' = ConnExecuteAll(db, Tail0(conn_log', Len(conn_log)))
    /\ gen' = Tail(gen)
    /\ emitted' = Append(emitted, Head(gen))
    /\ UNCHANGED <<db0, generator_stop, full, remote, pages, listing, phase, rng>>
    /\ UNCHANGED ovars

\* the generator raises instead of yielding: the exception leaves gen_update
\* and the with-block
GenRaises ==
    /\ pc = "open" /\ gen # <<>>
    /\ Has(Head(gen).op, "raise")
    /\ pc' = "raised"
    /\ exc' = Head(gen).op.raise
    /\ gen' = <<>>
    /\ emitted' = Append(emitted, Head(gen))
    /\ UNCHANGED <<chunk_size, ordered_keys, stmt_queues, conn_log, ncalls,
                   nsub, first_seen, round>>
    /\ UNCHANGED <<db, db0, generator_stop, full, remote, pages, listing,
                   phase, rng>>
    /\ UNCHANGED ovars

\* lines 250-252: after the last snapshot of `pages`, gen_insert follows
\* when rc_oldest > since; otherwise the generator is exhausted
EndPages ==
    /\ pc = "open" /\ phase = "pages" /\ gen = <<>> /\ pages = {}
    /\ IF full
       THEN /\ phase' = "allpages"
            /\ listing' = {id \in DOMAIN remote : ~Has(remote[id], "missing")}
       ELSE /\ phase' = "end"
            /\ UNCHANGED listing
    /\ UNCHANGED <<qvars, db, db0, generator_stop, full, remote, pages, gen,
                   rng, emitted>>
    /\ UNCHANGED ovars

\* gen_insert, lines 218-223: the allpages generator returns the next page
ListPage ==
    /\ pc = "open" /\ phase = "allpages" /\ gen = <<>>
    /\ \E id \in listing, rnd \in rng :
          /\ gen' = InsertStream(remote[id], rnd, generator_stop)
          /\ listing' = listing \ {id}
    /\ UNCHANGED <<qvars, db, db0, generator_stop, full, remote, pages,
                   phase, rng, emitted>>
    /\ UNCHANGED ovars

EndListing ==
    /\ pc = "open" /\ phase = "allpages" /\ gen = <<>> /\ listing = {}
    /\ phase' = "end"
    /\ UNCHANGED <<qvars, db, db0, generator_stop, full, remote, pages,
                   listing, gen, rng, emitted>>
    /\ UNCHANGED ovars

\* the with-block of the queue is left: gen_update is exhausted, or it raised
SyncExit ==
    /\ (pc = "open" /\ phase = "end") \/ (pc = "raised" /\ phase # "idle")
    /\ QExit(0)
    /\ db' = ConnExecuteAll(db, Tail0(conn_log', Len(conn_log)))
    /\ UNCHANGED <<db0, generator_stop, full, remote, pages, listing, phase,
                   gen, rng, emitted>>
    /\ UNCHANGED ovars

-----------------------------------------------------------------------------
(* Inputs: snapshots and stores *)

PageIds == {1, 2}

MaxRevs == 2

Missing(id) == [pageid |-> id, missing |-> ""]

\* two sets of scalar fields for a page
InfoA(id) ==
    [pageid |-> id, ns |-> 0, title |-> <<"Foo", id>>, touched |-> 1,
     lastrevid |-> 10 * id + 1, length |-> 100, contentmodel |-> "wikitext",
     pagelanguage |-> "en", new |-> ""]

InfoB(id) ==
    [pageid |-> id, ns |-> 4, title |-> <<"Bar", id>>, touched |-> 2,
     lastrevid |-> 10 * id + 2, length |-> 200, contentmodel |-> "css",
     pagelanguage |-> "de", redirect |-> ""]

\* a present snapshot; hasprops = FALSE: no "pageprops" key
Present(info, hasprops, props, protection) ==
    info @@ [protection |-> protection]
         @@ (IF hasprops THEN [pageprops |-> props] ELSE EmptyTable)

PrDirect(type, level) == [type |-> type, level |-> level, expiry |-> "infinity"]

PrCascading(type, level) ==
    [type |-> type, level |-> level, expiry |-> "infinity", cascade |-> ""]

PrSourced(type, level) ==
    [type |-> type, level |-> level, expiry |-> "infinity", source |-> "Main"]

Rev(p, k) == [rev_id |-> 10 * p + k, rev_page |-> p, rev_fields |-> <<"rev", p, k>>]

StoredRestriction ==
    [pr_level |-> "sysop", pr_cascade |-> FALSE, pr_user |-> "NULL",
     pr_expiry |-> "infinity"]

\* the row ("insert", "page") leaves for an entry
StoredPage(info) == InsertPage(EmptyDb, PageEntry(info, "r0")).page[info.pageid]

\* a store that mirrors the pages of ids `present` (page 2 always with one
\* property, one restriction and one revision), page 1 with the property
\* names props, the restriction types types and n revisions
Mirror(present, props, types, n) ==
    [page |-> [id \in present |-> StoredPage(InfoA(id))],
     page_props |->
        [k \in (({1} \cap present) \X props) \cup (({2} \cap present) \X {"a"})
            |-> "x"],
     page_restrictions |->
        [k \in (({1} \cap present) \X types) \cup (({2} \cap present) \X {"edit"})
            |-> StoredRestriction],
     revision |-> {Rev(1, k) : k \in 1..n} \cup {Rev(2, 1)},
     archive |-> EmptyTable,
     violations |-> {}]


PropNames == {"a", "b", "c"}

\* property maps of a snapshot: none, or any set of names with a value that
\* differs from the stored one, or the stored value for a
SnapshotProps ==
    {<<FALSE, EmptyTable>>}
    \cup {<<TRUE, [n \in S |-> "y"]>> : S \in SUBSET PropNames}
    \cup {<<TRUE, [n \in {"a"} |-> "x"]>>}

\* protection lists of a snapshot: direct entries, entries caused by
\* cascading protection (with "source"), and both for one type
SnapshotProtections ==
    { <<>>,
      <<PrDirect("edit", "sysop")>>,
      <<PrSourced("edit", "sysop")>>,
      <<PrCascading("edit", "autoconfirmed"), PrSourced("edit", "sysop")>>,
      <<PrDirect("edit", "autoconfirmed"), PrDirect("move", "sysop")>>,
      <<PrSourced("edit", "sysop"), PrDirect("move", "sysop")>> }

DifferSnapshots ==
    {Missing(1)} \cup
    {Present(info, pp[1], pp[2], prot) :
        info \in {InfoA(1), InfoB(1)}, pp \in SnapshotProps,
        prot \in SnapshotProtections}

DifferStores ==
    {Mirror({1, 2}, props, types, n) :
        props \in SUBSET PropNames, types \in SUBSET {"edit", "move"},
        n \in 0..MaxRevs}
    \cup {Mirror({2}, {}, {}, 0)}

\* SpecDiffer: one snapshot of page 1; chunk_size = 1 executes every
\* operation as it is emitted
InitDiffer ==
    /\ QInit
    /\ chunk_size = 1
    /\ db0 \in DifferStores
    /\ db = db0
    /\ generator_stop \in BOOLEAN
    /\ full = FALSE
    /\ \E snap \in DifferSnapshots :
          remote = [id \in PageIds |->
                      IF id = 1 THEN snap
                      ELSE Present(InfoA(id), TRUE, [n \in {"a"} |-> "x"],
                                   <<PrDirect("edit", "sysop")>>)]
    /\ pages = {1}
    /\ listing = {}
    /\ phase = "pages"
    /\ gen = <<>>
    /\ rng = {"r1", "r2"}
    /\ emitted = <<>>
    /\ OSingle(full, pages)
    /\ TIdle

NextDiffer == FetchPage \/ Yield \/ GenRaises \/ EndPages \/ SyncExit

SpecDiffer == InitDiffer /\ [][NextDiffer]_vars

SyncSnapshots(id) ==
    { Missing(id),
      Present(InfoA(id), FALSE, EmptyTable, <<>>),
      Present(InfoB(id), TRUE, [n \in {"a"} |-> "y"],
              <<PrDirect("edit", "sysop")>>),
      Present(InfoA(id), TRUE, [n \in {"a", "b"} |-> "y"],
              <<PrDirect("edit", "autoconfirmed"), PrDirect("move", "sysop")>>),
      Present(InfoA(id), TRUE, EmptyTable, <<PrSourced("edit", "sysop")>>) }

SyncStores ==
    { Mirror({1, 2}, {"a", "b"}, {"edit", "move"}, MaxRevs),
      Mirror({2}, {}, {}, 0),
      Mirror({}, {}, {}, 0) }

\* SpecSync: one pass over the candidate ids `pages`, followed by the full
\* listing when rc_oldest > since
InitSync ==
    /\ QInit
    /\ db0 \in SyncStores
    /\ db = db0
    /\ generator_stop \in BOOLEAN
    /\ full \in BOOLEAN
    /\ remote \in {r \in [PageIds -> UNION {SyncSnapshots(id) : id \in PageIds}] :
                      \A id \in PageIds : r[id] \in SyncSnapshots(id)}
    /\ pages \in SUBSET PageIds
    /\ listing = {}
    /\ phase = "pages"
    /\ gen = <<>>
    /\ rng = {"r1"}
    /\ emitted = <<>>
    /\ OSingle(full, pages)
    /\ TIdle

NextSync ==
    FetchPage \/ Yield \/ GenRaises \/ EndPages \/ ListPage \/ EndListing
    \/ SyncExit

SpecSync == InitSync /\ [][NextSync]_vars

-----------------------------------------------------------------------------
(* Claims about the queue (checked under Spec) *)

\* the conn.execute calls made by the step
NewCalls == Tail0(conn_log', Len(conn_log))

\* the calls are made in the order in which their statements were first
\* submitted, each statement once, and only the last call may have raised
InFirstSeenOrder(new) ==
    /\ \A i, j \in 1..Len(new) :
          i < j => first_seen'[new[i].statement] < first_seen'[new[j].statement]
    /\ \A i \in 1..Len(new) : new[i].raised => i = Len(new)

\* no statement with an entry in queues is passed over by the calls
NoKeySkipped(new, queues) ==
    \A i \in 1..Len(new) : \A k \in DOMAIN queues :
        first_seen'[k] < first_seen'[new[i].statement]
            => \E j \in 1..(i-1) : new[j].statement = k

\* every statement with an entry in queues got exactly one call, which
\* carries (at least) the parameter sets that were pending for it
AllFlushed(new, queues) ==
    /\ \A k \in DOMAIN queues :
          \E i \in 1..Len(new) : /\ new[i].statement = k
                                 /\ IsPrefix(queues[k], new[i].params)
    /\ \A i, j \in 1..Len(new) : new[i].statement = new[j].statement => i = j
    /\ \A i \in 1..Len(new) : ~new[i].raised

RoundRaised(new) == \E i \in 1..Len(new) : new[i].raised

\* a submit that set off a flush round (chunk_size > 1)
ChunkRound ==
    /\ chunk_size > 1
    /\ pc = "open" /\ pc' # "closed"
    /\ Len(conn_log') > Len(conn_log)

\* C1: with chunk_size > 1, a submit that makes a pending list reach
\* chunk_size flushes, in that same round, every statement that has pending
\* parameter sets, in the order in which the statements were first submitted
\* (not the order of saturation), passing over none; the round stops early
\* only at a call that raises, and when no call raises nothing is left
\* pending and one of the batches holds at least chunk_size parameter sets.
C1_FlushAllInFirstSeenOrder ==
    [][ChunkRound =>
          /\ InFirstSeenOrder(NewCalls)
          /\ NoKeySkipped(NewCalls, stmt_queues)
          /\ ~RoundRaised(NewCalls) =>
                /\ AllFlushed(NewCalls, stmt_queues)
                /\ \E i \in 1..Len(NewCalls) :
                      Len(NewCalls[i].params) >= chunk_size
                /\ stmt_queues' = EmptyQueues]_vars

\* C1 witness: a chunk round in which statement A (first seen first, not
\* saturated) was executed before statement B (first seen second, saturated)
C1_Witness ==
    \E i, j \in 1..Len(conn_log) :
        /\ i < j
        /\ conn_log[i].round = conn_log[j].round
        /\ conn_log[j].cause = "chunk"
        /\ ~conn_log[j].raised
        /\ first_seen[conn_log[i].statement] < first_seen[conn_log[j].statement]
        /\ Len(conn_log[i].params) >= 1
        /\ Len(conn_log[i].params) < chunk_size
        /\ Len(conn_log[j].params) >= chunk_size

\* the step in which the scope of the queue is left
ScopeExit == pc # "closed" /\ pc' = "closed"

\* every parameter set pending at the exit is executed exactly once by the
\* exit, in first-seen order, and nothing stays pending
ExitFlushedAll ==
    /\ InFirstSeenOrder(NewCalls)
    /\ AllFlushed(NewCalls, stmt_queues)
    /\ \A i \in 1..Len(NewCalls) :
          NewCalls[i].params = stmt_queues[NewCalls[i].statement]
    /\ Len(NewCalls) = Cardinality(DOMAIN stmt_queues)
    /\ stmt_queues' = EmptyQueues

C3_NoReexecution ==
    \A i, j \in 1..Len(conn_log) :
        i < j => Range(conn_log[i].params) \cap Range(conn_log[j].params) = {}

-----------------------------------------------------------------------------
(* Claims about the Differ and the pass (SpecDiffer, SpecSync) *)

RECURSIVE Flatten(_)
Flatten(ss) == IF ss = <<>> THEN <<>> ELSE Head(ss) \o Flatten(Tail(ss))

\* the operations (not the raises) emitted so far
EmittedOps == SelectSeq(emitted, LAMBDA it : ~Has(it.op, "raise"))

\* the operations emitted for the snapshot of page id, in order
EmittedFor(id) ==
    LET its == SelectSeq(EmittedOps, LAMBDA it : it.page = id)
    IN  [i \in 1..Len(its) |-> its[i].op]

\* the parameter sets emitted with statement s, in order of emission
EmittedParams(s) ==
    LET its == SelectSeq(EmittedOps, LAMBDA it : it.op.statement = s)
    IN  Flatten([i \in 1..Len(its) |-> its[i].op.params])

\* the parameter sets the connection received with statement s, in order
ExecutedParams(s) ==
    LET cs == SelectSeq(conn_log, LAMBDA c : c.statement = s)
    IN  Flatten([i \in 1..Len(cs) |-> cs[i].params])

\* the snapshot of page id has been taken from the API
Fetched(id) ==
    \/ \E i \in 1..Len(emitted) : emitted[i].page = id
    \/ \E i \in 1..Len(gen) : gen[i].page = id

\* ... and the generators have been run to their end for it
Processed(id) == Fetched(id) /\ \A i \in 1..Len(gen) : gen[i].page # id

\* the fields of a parameter set that hold the page id
IdFields ==
    {"page_id", "pp_page", "pr_page", "b_page_id", "b_pp_page", "b_pr_page",
     "b_rev_page"}

\* every operation emitted for page id has been executed by the store
Settled(id) ==
    /\ Processed(id)
    /\ \A s \in DOMAIN stmt_queues : \A i \in 1..Len(stmt_queues[s]) :
          \A f \in DOMAIN stmt_queues[s][i] \cap IdFields :
              stmt_queues[s][i][f] # id
    /\ \A s \in DOMAIN stmt_queues : Has(s, "page") => s.page # id

\* the rows of a table that belong to page id, as name -> value
RowsOf(table, id) ==
    [n \in {k[2] : k \in {x \in DOMAIN table : x[1] = id}} |-> table[<<id, n>>]]

IsDependent(s) ==
    s \in {Sql("insert", "page_props"), Sql("insert", "page_restrictions")}

DependentPage(s, e) ==
    IF s = Sql("insert", "page_props") THEN e.pp_page ELSE e.pr_page

\* C4: within one pass, whatever the chunk size and the snapshots, every
\* property upsert and every restriction upsert reaches the store after the
\* upsert of the row of its entity: the parameter sets of one statement
\* reach the store in the order they were emitted, the statements of a
\* round are executed in first-seen order, and the store never meets a
\* dependent row whose entity row is absent.
C4_DependentAfterEntity ==
    /\ \A j \in 1..Len(conn_log) :
          IsDependent(conn_log[j].statement) =>
             \A n \in 1..Len(conn_log[j].params) :
                \E i \in 1..(j-1) :
                   /\ conn_log[i].statement = Sql("insert", "page")
                   /\ \E m \in 1..Len(conn_log[i].params) :
                         conn_log[i].params[m].page_id =
                            DependentPage(conn_log[j].statement,
                                          conn_log[j].params[n])
    /\ \A s \in DOMAIN first_seen :
          IsPrefix(ExecutedParams(s), EmittedParams(s))
    /\ \A i, j \in 1..Len(conn_log) :
          (i < j /\ conn_log[i].round = conn_log[j].round) =>
             first_seen[conn_log[i].statement] < first_seen[conn_log[j].statement]
    /\ db.violations = {}

\* C4 witness: a flush set off by the property upserts reaching chunk_size
\* executed the pending entity upsert first, both for the same entity
C4_Witness ==
    \E i, j \in 1..Len(conn_log) :
        /\ i < j
        /\ conn_log[i].round = conn_log[j].round
        /\ conn_log[j].cause = "chunk"
        /\ conn_log[i].statement = Sql("insert", "page")
        /\ conn_log[j].statement = Sql("insert", "page_props")
        /\ Len(conn_log[j].params) >= chunk_size
        /\ Len(conn_log[i].params) < chunk_size
        /\ conn_log[i].params[1].page_id = conn_log[j].params[1].pp_page

\* the restrictions of the snapshot that carry no "source" key,
\* as type -> stored row
DirectRestrictions(page) ==
    LET ds == SelectSeq(page.protection, LAMBDA pr : ~Has(pr, "source"))
    IN  [ty \in {ds[i].type : i \in 1..Len(ds)} |->
            LET pr == ds[CHOOSE i \in 1..Len(ds) : ds[i].type = ty]
            IN  [pr_level |-> pr.level, pr_cascade |-> Has(pr, "cascade"),
                 pr_user |-> "NULL", pr_expiry |-> pr.expiry]]

\* C5: after the operations for a present snapshot of entity E are applied,
\* the stored restriction rows of E are exactly the restrictions of the
\* snapshot that carry no "source" marker (a stored direct restriction of a
\* type the snapshot lists only as cascading is removed).
C5_OnlyDirectRestrictionsStored ==
    \A id \in PageIds :
        (phase # "idle" /\ Settled(id) /\ exc = "none"
         /\ ~Has(remote[id], "missing"))
            => RowsOf(db.page_restrictions, id) = DirectRestrictions(remote[id])

\* C6: after any pass (FULL or INCREMENTAL) that processed a present
\* snapshot of entity E, the stored property rows of E are exactly the
\* property map of the snapshot.
C6_PropertiesReplaced ==
    \A id \in PageIds :
        (pc = "closed" /\ phase = "end" /\ exc = "none" /\ Processed(id)
         /\ ~Has(remote[id], "missing"))
            => RowsOf(db.page_props, id) = PageProps(remote[id])

\* the delete gen_deletes_from_page emitted for a table of page id
KeepDeletesFor(table, id) ==
    SelectSeq(EmittedFor(id), LAMBDA op :
        /\ op.statement.table = table
        /\ op.statement.op \in {"delete-all", "delete-but-one", "delete-notin"})

\* the delete is the variant that the size of keep selects
RightVariant(op, table, id, keep, b_page, b_name) ==
    IF keep = {}
    THEN /\ op.statement = Sql("delete-all", table)
         /\ Len(op.params) = 1
         /\ DOMAIN op.params[1] = {b_page}
         /\ op.params[1][b_page] = id
    ELSE IF \E n \in keep : keep = {n}
    THEN /\ op.statement = Sql("delete-but-one", table)
         /\ Len(op.params) = 1
         /\ DOMAIN op.params[1] = {b_page, b_name}
         /\ op.params[1][b_page] = id
         /\ keep = {op.params[1][b_name]}
    ELSE /\ op.statement = NotIn(table, id, keep)
         /\ op.params = <<>>

\* of the rows stored before, exactly those with a name in keep are left
KeptExactly(before, after, id, keep) ==
    \A n \in DOMAIN RowsOf(before, id) :
        n \in DOMAIN RowsOf(after, id) <=> n \in keep

OthersUntouched(before, after, id) ==
    \A k \in DOMAIN before \cup DOMAIN after :
        k[1] # id => k \in DOMAIN before /\ k \in DOMAIN after
                     /\ before[k] = after[k]

\* C7: for a present snapshot the Differ picks the stale-row delete by the
\* size of keep (the names in the snapshot): delete-all when keep is empty,
\* delete-but-one when it has one member, delete-not-in otherwise; applied to
\* any stored rows, it removes exactly the stored rows of the entity whose
\* name is not in keep, and no other row.  The same holds for the
\* restriction rows, keyed by the types the snapshot lists.
C7_KeepSetDelete ==
    \A id \in PageIds :
        (phase # "idle" /\ Settled(id) /\ exc = "none"
         /\ ~Has(remote[id], "missing"))
            => /\ Len(KeepDeletesFor("page_props", id)) = 1
               /\ RightVariant(KeepDeletesFor("page_props", id)[1], "page_props",
                               id, DOMAIN PageProps(remote[id]),
                               "b_pp_page", "b_pp_propname")
               /\ KeptExactly(db0.page_props, db.page_props, id,
                              DOMAIN PageProps(remote[id]))
               /\ OthersUntouched(db0.page_props, db.page_props, id)
               /\ Len(KeepDeletesFor("page_restrictions", id)) = 1
               /\ RightVariant(KeepDeletesFor("page_restrictions", id)[1],
                               "page_restrictions", id,
                               {remote[id].protection[i].type :
                                   i \in 1..Len(remote[id].protection)},
                               "b_pr_page", "b_pr_type")
               /\ KeptExactly(db0.page_restrictions, db.page_restrictions, id,
                              {remote[id].protection[i].type :
                                  i \in 1..Len(remote[id].protection)})
               /\ OthersUntouched(db0.page_restrictions, db.page_restrictions, id)

\* C7 witness: stored properties a, b, c and a snapshot with the property a
\* alone: the delete emitted is delete-but-one for a, and a is the row left
C7_Witness ==
    /\ phase # "idle" /\ Settled(1) /\ exc = "none"
    /\ ~Has(remote[1], "missing")
    /\ DOMAIN RowsOf(db0.page_props, 1) = {"a", "b", "c"}
    /\ DOMAIN PageProps(remote[1]) = {"a"}
    /\ KeepDeletesFor("page_props", 1)[1].statement =
          Sql("delete-but-one", "page_props")
    /\ DOMAIN RowsOf(db.page_props, 1) = {"a"}

\* C8: for a snapshot with the "missing" marker processed in an INCREMENTAL
\* pass, the Differ emits exactly two operations, the move of the revisions
\* of the entity to the archive and then the delete of the entity row, no
\* upsert, and no error is raised: the pass goes on.
C8_MissingEmitsMoveThenDelete ==
    \A id \in PageIds :
        (phase # "idle" /\ ~full /\ Fetched(id) /\ Has(remote[id], "missing"))
            => /\ pc # "raised"
               /\ exc = "none"
               /\ Processed(id) =>
                     EmittedFor(id) =
                        <<Op(Sql("move", "revision"), [b_rev_page |-> id]),
                          Op(Sql("delete", "page"), [b_page_id |-> id])>>

\* the archive rows that the revisions of page id of the store d make
ArchiveRowsOf(d, id) ==
    {[ar_namespace |-> d.page[id].page_namespace,
      ar_title     |-> d.page[id].page_title,
      ar_rev_id    |-> r.rev_id,
      ar_page_id   |-> r.rev_page,
      ar_fields    |-> r.rev_fields] : r \in {x \in d.revision : x.rev_page = id}}

\* C9: if the store held the entity row and n revisions of the entity, then
\* after the operations for its missing snapshot are applied the archive has
\* gained exactly n rows, one for each of these revisions with its
\* identifier and fields and the namespace and title of the entity, no
\* revision of the entity is left in the revision table, the entity row is
\* gone, and the revisions of other entities are where they were.
C9_RevisionsMovedToArchive ==
    \A id \in PageIds :
        (phase # "idle" /\ Settled(id) /\ exc = "none"
         /\ Has(remote[id], "missing") /\ id \in DOMAIN db0.page)
            => /\ db.archive = BagAdd(db0.archive, ArchiveRowsOf(db0, id))
               /\ Cardinality(ArchiveRowsOf(db0, id)) =
                     Cardinality({r \in db0.revision : r.rev_page = id})
               /\ {r \in db.revision : r.rev_page = id} = {}
               /\ {r \in db.revision : r.rev_page # id} =
                     {r \in db0.revision : r.rev_page # id}
               /\ id \notin DOMAIN db.page

\* C9 witness: an entity with two or more stored revisions was deleted
C9_Witness ==
    /\ phase # "idle" /\ Settled(1) /\ exc = "none"
    /\ Has(remote[1], "missing") /\ 1 \in DOMAIN db0.page
    /\ Cardinality({r \in db0.revision : r.rev_page = 1}) >= 2
    /\ \A r \in ArchiveRowsOf(db0, 1) : r \in DOMAIN db.archive
    /\ 1 \notin DOMAIN db.page

MovesOf(id) ==
    {i \in 1..Len(conn_log) :
        /\ conn_log[i].statement = Sql("move", "revision")
        /\ \E m \in 1..Len(conn_log[i].params) :
              conn_log[i].params[m].b_rev_page = id}

DeletesOf(id) ==
    {i \in 1..Len(conn_log) :
        /\ conn_log[i].statement = Sql("delete", "page")
        /\ \E m \in 1..Len(conn_log[i].params) :
              conn_log[i].params[m].b_page_id = id}

\* C10: for every chunk size and every interleaving with the operations of
\* other entities of the pass, the move of the revisions of entity E is
\* executed before the delete of the row of E, so that the row of E is still
\* there when the move runs: once the row of E is gone, the revisions E had
\* are in the archive with the namespace and title of that row.
C10_MoveBeforeDelete ==
    \A id \in PageIds :
        /\ \A j \in DeletesOf(id) : \E i \in MovesOf(id) : i < j
        /\ (id \in DOMAIN db0.page /\ id \notin DOMAIN db.page)
              => /\ \A r \in ArchiveRowsOf(db0, id) : r \in DOMAIN db.archive
                 /\ {r \in db.revision : r.rev_page = id} = {}

\* C10 witness: with chunk_size > 1, one round executed an upsert of another
\* entity, then the move of the revisions of E and then the delete of the
\* row of E, and the revisions of E are in the archive
C10_Witness ==
    /\ chunk_size > 1
    /\ \E id \in PageIds :
          /\ id \in DOMAIN db0.page /\ id \notin DOMAIN db.page
          /\ {r \in db0.revision : r.rev_page = id} # {}
          /\ \A r \in ArchiveRowsOf(db0, id) : r \in DOMAIN db.archive
          /\ \E i \in MovesOf(id), j \in DeletesOf(id), k \in 1..Len(conn_log) :
                /\ i < j
                /\ conn_log[i].round = conn_log[j].round
                /\ conn_log[k].round = conn_log[i].round
                /\ conn_log[k].statement = Sql("insert", "page")

-----------------------------------------------------------------------------
(* Claims about the mode of a pass *)

IsUpsert(it) == ~Has(it.op, "raise") /\ it.op.statement.op = "insert"

IsDelete(it) ==
    /\ ~Has(it.op, "raise")
    /\ it.op.statement.op \in
          {"delete", "delete-all", "delete-but-one", "delete-notin", "move"}

\* C12 as the spec states it: in a pass whose mode is FULL no delete of
\* properties, of restrictions or of the entity and no move of revisions is
\* submitted to the queue; every operation of the pass is an upsert.
C12_FullPassOnlyUpserts ==
    (phase # "idle" /\ full) =>
        \A i \in 1..Len(emitted) : ~IsDelete(emitted[i])

\* C12 as the code has it: in a FULL pass the enumeration of all entities
\* submits upserts only, but before it the candidates named by the log events
\* are processed as in an INCREMENTAL pass: when the stream of a present
\* candidate ends, the last two operations submitted are its two stale-row
\* deletes.
C12_OnlyListingIsUpsertOnly ==
    [][/\ (phase = "allpages" /\ emitted' # emitted)
            => IsUpsert(emitted'[Len(emitted')])
       /\ (phase = "pages" /\ full /\ emitted' # emitted /\ gen' = <<>>
           /\ ~Has(emitted'[Len(emitted')].op, "raise")
           /\ ~Has(remote[emitted'[Len(emitted')].page], "missing"))
            => /\ Len(emitted') >= 2
               /\ emitted'[Len(emitted') - 1].op.statement.table = "page_props"
               /\ IsDelete(emitted'[Len(emitted') - 1])
               /\ emitted'[Len(emitted')].op.statement.table = "page_restrictions"
               /\ IsDelete(emitted'[Len(emitted')])]_vars

\* C12 witness: a FULL pass at its end that submitted a delete for a
\* candidate and, after it, upserts only
C12_Witness ==
    /\ full /\ phase = "end" /\ exc = "none"
    /\ \E i \in 1..Len(emitted) :
          /\ IsDelete(emitted[i])
          /\ i < Len(emitted)
          /\ \A j \in (i + 1)..Len(emitted) :
                IsUpsert(emitted[j]) /\ emitted[j].page # emitted[i].page

-----------------------------------------------------------------------------
(* A pass run a second time on the same snapshot *)

\* the operations of a stream, as calls of the connection
StreamCalls(stream) ==
    [i \in 1..Len(stream) |->
        [statement |-> stream[i].op.statement, params |-> stream[i].op.params]]

\* after the pass, the snapshot of the page it processed goes through
\* gen_inserts_from_page and gen_deletes_from_page again (random.random() is
\* drawn again, line 133) and the operations are executed in the order of
\* emission
Reapply ==
    /\ pc = "closed" /\ phase = "end" /\ exc = "none"
    /\ phase' = "again"
    /\ \E id \in PageIds, rnd \in rng :
          /\ Processed(id)
          /\ db' = ConnExecuteAll(db,
                      StreamCalls(UpdateStream(remote[id], rnd, generator_stop)))
    /\ UNCHANGED <<qvars, db0, generator_stop, full, remote, pages, listing,
                   gen, rng, emitted>>
    /\ UNCHANGED ovars

NextRetry ==
    FetchPage \/ Yield \/ GenRaises \/ EndPages \/ SyncExit \/ Reapply

SpecRetry == InitDiffer /\ [][NextRetry]_vars

\* a store without the random sort keys of its page rows
SansRandom(d) ==
    [d EXCEPT !.page =
        [id \in DOMAIN d.page |-> [d.page[id] EXCEPT !.page_random = "-"]]]

\* C19 as the spec states it: applying the operations the Differ emits for
\* the same snapshot a second time leaves the page, page_props,
\* page_restrictions, revision and archive tables as the first application
\* left them.
C19_ReapplyChangesNothing ==
    [][(phase = "end" /\ phase' = "again") => db' = db]_vars

\* C19 as the code has it: the second application leaves every table as the
\* first left it but for the random sort key of the page row, which is drawn
\* anew; the archive gains no row, and no revision comes back.
C19_ReapplyChangesRandomOnly ==
    [][(phase = "end" /\ phase' = "again") => SansRandom(db') = SansRandom(db)]_vars

\* C19 witness: the move and the delete of a page with stored revisions were
\* applied twice, and the archive holds each revision once
C19_Witness ==
    /\ phase = "again"
    /\ Has(remote[1], "missing")
    /\ 1 \in DOMAIN db0.page
    /\ {r \in db0.revision : r.rev_page = 1} # {}
    /\ Len(EmittedOps) = 2
    /\ \A r \in ArchiveRowsOf(db0, 1) :
          r \in DOMAIN db.archive /\ db.archive[r] = 1

-----------------------------------------------------------------------------
(* Claims about the page row *)

\* the page row that mirrors a present snapshot, the random sort key aside
RowOfSnapshot(page) ==
    [page_namespace     |-> page.ns,
     page_title         |-> DbTitle(page.title, page.ns),
     page_is_redirect   |-> "redirect" \in DOMAIN page,
     page_is_new        |-> "new" \in DOMAIN page,
     page_random        |-> "-",
     page_touched       |-> page.touched,
     page_links_updated |-> "NULL",
     page_latest        |-> page.lastrevid,
     page_len           |-> page.length,
     page_content_model |-> page.contentmodel,
     page_lang          |-> page.pagelanguage]

\* the parameter sets of the page upsert the connection received for page id
PageUpsertsOf(id) ==
    SelectSeq(ExecutedParams(Sql("insert", "page")), LAMBDA e : e.page_id = id)

\* C20: the page table holds one row for an identifier however often it was
\* upserted, and once the operations of a present snapshot of the identifier
\* are executed, namespace, title, redirect flag, is-new flag, touched
\* timestamp, latest revision, length, content model and language of the row
\* are those of the snapshot, and the random sort key is the one drawn for
\* the last upsert: nothing of the row stored before is left.
C20_LastWriteWins ==
    \A id \in PageIds :
        (phase # "idle" /\ Settled(id) /\ exc = "none"
         /\ ~Has(remote[id], "missing"))
            => /\ id \in DOMAIN db.page
               /\ [db.page[id] EXCEPT !.page_random = "-"] = RowOfSnapshot(remote[id])
               /\ PageUpsertsOf(id) # <<>>
               /\ db.page[id].page_random =
                     PageUpsertsOf(id)[Len(PageUpsertsOf(id))].page_random

\* C20 witness: a stored row was upserted twice in one pass with a snapshot
\* whose fields all differ from the stored ones
C20_Witness ==
    \E id \in PageIds :
        /\ phase # "idle" /\ Settled(id) /\ exc = "none"
        /\ id \in DOMAIN db0.page
        /\ ~Has(remote[id], "missing")
        /\ \A f \in DOMAIN db0.page[id] \ {"page_links_updated"} :
              db0.page[id][f] # db.page[id][f]
        /\ Len(PageUpsertsOf(id)) = 2

-----------------------------------------------------------------------------
(* Change discovery: GrabberPages.get_rcpages and get_logpages.  The feeds   *)
(* are the recentchanges and logging tables; a row of recentchanges is a     *)
(* record with timestamp, type, pageid and title, and logaction when its     *)
(* type is "log"; a log event is a record with timestamp, type and logpage.  *)

\* recentchanges.list(db, rc_params) with "type": types, "start": from_,
\* "dir": "newer": the rows of these types stamped from_ or later
RcList(changes, types, from_) ==
    {c \in changes : c.type \in types /\ c.timestamp >= from_}

\* logevents.list(db, le_params) with "start": from_, "dir": "newer"
LeList(events, from_) == {e \in events : e.timestamp >= from_}

\* lines 270-274: the titles of the move log events
RcTitles(changes) ==
    {c.title : c \in {x \in changes : x.type = "log" /\ x.logaction = "move"}}

\* lines 279-283: the pages the API returns for a titles query: a title of a
\* live page comes back with its pageid, any other without one
TitleQuery(world, titles) ==
    {IF \E id \in DOMAIN world :
            ~Has(world[id], "missing") /\ world[id].title = ti
     THEN [pageid |-> CHOOSE id \in DOMAIN world :
                        ~Has(world[id], "missing") /\ world[id].title = ti,
           title |-> ti]
     ELSE [title |-> ti, missing |-> ""] : ti \in titles}

\* get_rcpages(since), lines 255-288
MutGetRcPagesNoTitles(changes, world, from_) ==
    {c.pageid : c \in RcList(changes, {"edit", "new", "log"}, from_)}

MutGetRcPagesNoLog(changes, world, from_) ==
    LET list == RcList(changes, {"edit", "new"}, from_)
    IN  {c.pageid : c \in list}

MutGetRcPagesNoStart(changes, world, from_) ==
    LET list == RcList(changes, {"edit", "new", "log"}, 0)
    IN  {c.pageid : c \in list}
        \cup {p.pageid : p \in {q \in TitleQuery(world, RcTitles(list)) :
                                   Has(q, "pageid")}}

GetRcPages(changes, world, from_) ==
    LET list == RcList(changes, {"edit", "new", "log"}, from_)
    IN  {c.pageid : c \in list}
        \cup {p.pageid : p \in {q \in TitleQuery(world, RcTitles(list)) :
                                   Has(q, "pageid")}}

\* get_logpages(since), lines 290-302
GetLogPages(events, from_) ==
    {e.logpage : e \in {x \in LeList(events, from_) :
                           x.type \in {"delete", "protect", "move"}}}

\* gen_update, line 232: rc_oldest > since
MutRetentionExceededAtEqual(oldest, from_) == oldest >= from_

RetentionExceeded(oldest, from_) == oldest > from_

-----------------------------------------------------------------------------
(* The remote wiki: pages are created, edited, protected, moved and deleted, *)
(* and every change leaves its rows in the feeds                             *)

MaxTime == 3

MaxPasses == 2

Without(rec, key) == [f \in DOMAIN rec \ {key} |-> rec[f]]

\* a page as it is created: one property and a direct restriction
NewPage(id, title) ==
    Present([InfoA(id) EXCEPT !.title = title], TRUE, [n \in {"a"} |-> "x"],
            <<PrDirect("edit", "sysop")>>)

\* the redirect a move leaves behind
RedirectPage(id, title) ==
    Present([InfoA(id) EXCEPT !.title = title] @@ [redirect |-> ""], FALSE,
            EmptyTable, <<>>)

FirstTitle(id) == IF id = 1 THEN "Foo" ELSE "Bar"

RcRow(type, id, title) ==
    [timestamp |-> clock, type |-> type, pageid |-> id, title |-> title]

RcLogRow(action, id, title) ==
    [timestamp |-> clock, type |-> "log", logaction |-> action, pageid |-> id,
     title |-> title]

LeRow(type, id) == [timestamp |-> clock, type |-> type, logpage |-> id]

\* the wiki changes between two passes, or while the queue of a pass that
\* has fetched its last snapshot is still open
WikiMay == clock <= MaxTime /\ (phase = "ready" \/ (phase = "end" /\ pc = "open"))

Live(id) == ~Has(remote[id], "missing")

\* an id no page ever had
Unused(id) ==
    /\ ~Live(id)
    /\ \A c \in rc : c.pageid # id
    /\ \A e \in le : e.logpage # id

WikiFrame ==
    /\ clock' = clock + 1
    /\ UNCHANGED <<qvars, db, db0, generator_stop, full, pages, listing, phase,
                   gen, rng, emitted>>
    /\ UNCHANGED <<watermark, since, start, rc_oldest, le_oldest, requests, candidates,
                   history,
                   tvars>>

Create ==
    /\ WikiMay
    /\ \E id \in PageIds :
          /\ ~Live(id)
          /\ \A o \in PageIds : Live(o) => remote[o].title # FirstTitle(id)
          /\ remote' = [remote EXCEPT ![id] = NewPage(id, FirstTitle(id))]
          /\ rc' = rc \cup {RcRow("new", id, FirstTitle(id))}
    /\ UNCHANGED le
    /\ WikiFrame

\* an edit that removes the property of the page, or gives it back
Edit ==
    /\ WikiMay
    /\ \E id \in PageIds :
          /\ Live(id)
          /\ remote' = [remote EXCEPT ![id] =
                IF Has(@, "pageprops") THEN Without(@, "pageprops")
                ELSE @ @@ [pageprops |-> [n \in {"a"} |-> "y"]]]
          /\ rc' = rc \cup {RcRow("edit", id, remote[id].title)}
    /\ UNCHANGED le
    /\ WikiFrame

\* the protection of the page changes: its direct restriction is lifted and
\* a cascading protection applies, or the other way round
Protect ==
    /\ WikiMay
    /\ \E id \in PageIds :
          /\ Live(id)
          /\ remote' = [remote EXCEPT ![id].protection =
                IF @ = <<PrDirect("edit", "sysop")>>
                THEN <<PrSourced("edit", "sysop")>>
                ELSE <<PrDirect("edit", "sysop")>>]
          /\ rc' = rc \cup {RcLogRow("protect", id, remote[id].title)}
          /\ le' = le \cup {LeRow("protect", id)}
    /\ WikiFrame

Delete ==
    /\ WikiMay
    /\ \E id \in PageIds :
          /\ Live(id)
          /\ remote' = [remote EXCEPT ![id] = Missing(id)]
          /\ rc' = rc \cup {RcLogRow("delete", id, remote[id].title)}
          /\ le' = le \cup {LeRow("delete", id)}
    /\ WikiFrame

\* the titles a page can be moved to
MoveTargets == {"Baz", "Qux"}

\* a page is moved to a free title; the move leaves a redirect with a new id
\* under the old title, or none.  The row of the move carries the old title.
Move ==
    /\ WikiMay
    /\ \E id \in PageIds, to \in MoveTargets, redirect \in BOOLEAN :
          /\ Live(id)
          /\ \A o \in PageIds : Live(o) => remote[o].title # to
          /\ IF redirect
             THEN \E new \in PageIds :
                     /\ Unused(new)
                     /\ remote' = [remote EXCEPT ![id].title = to,
                                     ![new] = RedirectPage(new, remote[id].title)]
             ELSE remote' = [remote EXCEPT ![id].title = to]
          /\ rc' = rc \cup {RcLogRow("move", id, remote[id].title)}
          /\ le' = le \cup {LeRow("move", id)}
    /\ WikiFrame

\* a live page gains or loses a category: recentchanges gets a row of type
\* "categorize", which get_rcpages does not ask for
Categorize ==
    /\ WikiMay
    /\ \E id \in PageIds :
          /\ Live(id)
          /\ rc' = rc \cup {RcRow("categorize", id, remote[id].title)}
    /\ UNCHANGED <<remote, le,
                   tvars>>
    /\ WikiFrame

\* the rows of recentchanges older than now are purged
Purge ==
    /\ phase = "ready"
    /\ rc_oldest < clock
    /\ rc_oldest' = clock
    /\ rc' = {c \in rc : c.timestamp >= clock}
    /\ UNCHANGED <<qvars, svars>>
    /\ UNCHANGED <<watermark, since, start, clock, le, le_oldest, requests, candidates,
                   history,
                   tvars>>

\* the rows of the logging table older than the oldest row of recentchanges
\* are purged: the log is kept at least as long as recentchanges
PurgeLog ==
    /\ phase = "ready"
    /\ le_oldest < rc_oldest
    /\ \E e \in le : e.timestamp < rc_oldest
    /\ le_oldest' = rc_oldest
    /\ le' = {e \in le : e.timestamp >= rc_oldest}
    /\ UNCHANGED <<qvars, svars>>
    /\ UNCHANGED <<watermark, since, start, clock, rc, rc_oldest, requests,
                   candidates, history,
                   tvars>>

-----------------------------------------------------------------------------
(* The passes: the watermark is read, gen_update(since) runs inside the     *)
(* with-block of a new queue and of a transaction, and the pass is           *)
(* committed or rolled back                                                  *)

InitPass ==
    /\ chunk_size \in {1, MaxChunk}
    /\ ordered_keys = <<>> /\ stmt_queues = EmptyQueues /\ conn_log = <<>>
    /\ pc = "closed" /\ exc = "none" /\ ncalls = 0 /\ nsub = 0
    /\ first_seen = EmptyQueues /\ round = 0
    /\ db = EmptyDb /\ db0 = EmptyDb
    /\ generator_stop \in BOOLEAN
    /\ full = FALSE
    /\ remote = [id \in PageIds |-> Missing(id)]
    /\ pages = {} /\ listing = {}
    /\ phase = "ready"
    /\ gen = <<>> /\ rng = {"r1"} /\ emitted = <<>>
    /\ watermark = 0 /\ since = 0 /\ start = 0 /\ clock = 1
    /\ rc = {} /\ le = {} /\ rc_oldest = 0 /\ le_oldest = 0
    /\ requests = <<>>
    /\ candidates = {}
    /\ history = <<>>
    /\ TIdle

\* a pass begins: the watermark is read, the transaction and the scope of a
\* new queue are entered
Start ==
    /\ phase = "ready" /\ Len(history) < MaxPasses
    /\ since' = watermark
    /\ start' = clock
    /\ db0' = db
    /\ ordered_keys' = <<>> /\ stmt_queues' = EmptyQueues /\ conn_log' = <<>>
    /\ pc' = "open" /\ exc' = "none" /\ ncalls' = 0 /\ nsub' = 0
    /\ first_seen' = EmptyQueues /\ round' = 0
    /\ emitted' = <<>> /\ candidates' = {}
    /\ phase' = "discover"
    /\ UNCHANGED <<chunk_size, db, generator_stop, full, remote, pages, listing,
                   gen, rng>>
    /\ UNCHANGED <<watermark, clock, rc, le, rc_oldest, le_oldest, requests, history,
                   tvars>>

\* gen_update, lines 231-235
Discover ==
    /\ phase = "discover" /\ pc = "open"
    /\ full' = RetentionExceeded(rc_oldest, since)
    /\ pages' = IF RetentionExceeded(rc_oldest, since)
                THEN GetLogPages(le, since)
                ELSE GetRcPages(rc, remote, since)
    /\ candidates' = pages'
    /\ phase' = "pages"
    /\ UNCHANGED <<qvars, db, db0, generator_stop, remote, listing, gen, rng,
                   emitted>>
    /\ UNCHANGED <<watermark, since, start, clock, rc, le, rc_oldest, le_oldest, requests,
                   history,
                   tvars>>

PassRecord(outcome) ==
    [full |-> full, outcome |-> outcome, since |-> since, start |-> start,
     finish |-> clock, candidates |-> candidates, emitted |-> Len(emitted)]

\* the queue was flushed and closed without an error: the transaction is
\* committed and the watermark becomes the time the pass began
MutCommitFinishTime == clock

CommitTime == start

Commit ==
    /\ pc = "closed" /\ phase = "end" /\ exc = "none"
    /\ watermark' = CommitTime
    /\ history' = Append(history, PassRecord("committed"))
    /\ phase' = "ready"
    /\ UNCHANGED <<qvars, db, db0, generator_stop, full, remote, pages, listing,
                   gen, rng, emitted>>
    /\ UNCHANGED <<since, start, clock, rc, le, rc_oldest, le_oldest, requests,
                   candidates,
                   tvars>>

\* an error left the scope of the queue: the transaction is rolled back
MutRollbackKeeps(now, before) == now

RolledBack(now, before) == before

Rollback ==
    /\ pc = "closed" /\ phase \in {"pages", "allpages", "end"} /\ exc # "none"
    /\ db' = RolledBack(db, db0)
    /\ history' = Append(history, PassRecord("failed"))
    /\ phase' = "ready"
    /\ UNCHANGED <<qvars, db0, generator_stop, full, remote, pages, listing,
                   gen, rng, emitted>>
    /\ UNCHANGED <<watermark, since, start, clock, rc, le, rc_oldest, le_oldest, requests,
                   candidates,
                   tvars>>

NextPass ==
    \/ Create \/ Edit \/ Protect \/ Delete \/ Move \/ Categorize \/ Purge
    \/ PurgeLog
    \/ Start \/ Discover
    \/ FetchPage \/ Yield \/ GenRaises \/ EndPages \/ ListPage \/ EndListing
    \/ SyncExit
    \/ Commit \/ Rollback

SpecPass == InitPass /\ [][NextPass]_vars

-----------------------------------------------------------------------------
(* Claims about the passes (SpecPass) *)

InPass == phase \in {"pages", "allpages", "end"}

\* C11: a pass enumerates every page (FULL) if and only if the oldest
\* timestamp kept in recentchanges is strictly later than `since`, whatever
\* the candidate set holds: with rc_oldest > since the pass goes on, after
\* its candidates, to list every live page; with rc_oldest <= since it ends
\* after its candidates and lists nothing.
C11_FullIffRetentionExceeded ==
    [][/\ InPass' => (full' <=> rc_oldest' > since')
       /\ (phase = "pages" /\ phase' \in {"allpages", "end"})
             => /\ phase' = "allpages" <=> rc_oldest > since
                /\ phase' = "allpages" => listing' = {id \in PageIds : Live(id)}
                /\ phase' = "end" => listing' = {}
       /\ (phase = "allpages" /\ phase' = "end") => listing = {}
       /\ (phase' = "allpages" /\ Len(emitted') > Len(emitted))
             => /\ rc_oldest > since
                /\ Live(emitted'[Len(emitted')].page)]_vars

\* C11 witness: a FULL pass with an empty candidate set that is listing the
\* pages of the wiki
C11_Witness ==
    /\ phase = "allpages" /\ candidates = {}
    /\ rc_oldest > since
    /\ emitted # <<>>
    /\ listing # {}

\* the rows of recentchanges get_rcpages(since) asks for
Wanted(c) == c.type \in {"edit", "new", "log"} /\ c.timestamp >= since

\* the page upserts the pass has submitted for page id
PageUpsertsEmitted(id) ==
    {i \in 1..Len(emitted) :
        /\ emitted[i].page = id
        /\ ~Has(emitted[i].op, "raise")
        /\ emitted[i].op.statement = Sql("insert", "page")}

\* C13: in an INCREMENTAL pass the candidate set holds the page id of every
\* row of recentchanges of type edit, new or log stamped `since` or later,
\* and every id it holds comes from such a row or is the id a live page has
\* under the title of a move row of the window; an id is a candidate once
\* however many rows name it: its snapshot is processed at most once.
C13_IncrementalCandidates ==
    (InPass /\ ~full) =>
        /\ (phase = "pages" =>
              /\ \A c \in rc : Wanted(c) => c.pageid \in candidates
              /\ \A id \in candidates :
                    \/ \E c \in rc : Wanted(c) /\ c.pageid = id
                    \/ \E c \in rc :
                          /\ Wanted(c) /\ c.type = "log" /\ c.logaction = "move"
                          /\ Live(id) /\ remote[id].title = c.title)
        /\ pages \subseteq candidates
        /\ \A id \in PageIds :
              /\ Cardinality(PageUpsertsEmitted(id)) <= 1
              /\ PageUpsertsEmitted(id) # {} => id \in candidates \ pages

\* C13 witness: an INCREMENTAL pass after a committed one, whose window
\* begins with a row stamped exactly `since`, holds two rows that name the
\* same page and a row of a type that is not asked for; the page was
\* upserted
C13_Witness ==
    /\ InPass /\ ~full /\ since > 0
    /\ \E c \in rc : Wanted(c) /\ c.timestamp = since
    /\ \E c1, c2 \in rc :
          /\ c1 # c2 /\ Wanted(c1) /\ Wanted(c2) /\ c1.pageid = c2.pageid
          /\ PageUpsertsEmitted(c1.pageid) # {}
    /\ \E c \in rc : c.type = "categorize" /\ c.timestamp >= since

\* the move rows of the window of the pass
MoveRows == {c \in rc : Wanted(c) /\ c.type = "log" /\ c.logaction = "move"}

\* the live page that holds a title, if there is one
Holders(title) == {id \in PageIds : Live(id) /\ remote[id].title = title}

\* C14: when an INCREMENTAL pass has discovered its candidates, the id of
\* the live page that holds the title of a move row of the window is a
\* candidate, whether or not a row of recentchanges names that id and
\* whether or not the store has the page; a title no live page holds adds
\* nothing and is no error: the candidates are exactly the ids the rows of
\* the window name and the ids their move titles resolve to, and discovery
\* ends without an exception.
C14_MoveTitlesResolved ==
    (phase = "pages" /\ ~full) =>
        /\ \A c \in MoveRows : Holders(c.title) \subseteq candidates
        /\ candidates = {c.pageid : c \in {x \in rc : Wanted(x)}}
                         \cup UNION {Holders(c.title) : c \in MoveRows}
        /\ (pages = candidates /\ gen = <<>>) => exc = "none"

\* C14 witness: discovery has ended; the window holds two move rows; the
\* title of one resolves to a redirect that no row of recentchanges names
\* and that the store does not have, under any id, and it is a candidate;
\* the title of the other is held by no live page
C14_Witness ==
    /\ phase = "pages" /\ ~full /\ pages = candidates /\ exc = "none"
    /\ \E c \in MoveRows : \E id \in Holders(c.title) :
          /\ id \in candidates
          /\ \A x \in rc : x.pageid # id
          /\ id \notin DOMAIN db.page
          /\ \A k \in DOMAIN db.page :
                db.page[k].page_title # RowOfSnapshot(remote[id]).page_title
    /\ \E c \in MoveRows : Holders(c.title) = {}

\* the record of the pass that ended last
LastPass == history[Len(history)]

\* C15: when a pass has failed, every table of the store is as it was when
\* the pass began, whatever the queue passed to the connection before the
\* error or when the error left its scope, and the watermark is the one the
\* pass read; the pass that follows reads the same watermark.
C15_FailedPassChangesNothing ==
    (history # <<>> /\ LastPass.outcome = "failed") =>
        /\ watermark = LastPass.since
        /\ phase = "ready" => (db = db0 /\ since = watermark)
        /\ phase # "ready" => since = LastPass.since

\* C15 witness: a pass has failed after the connection had executed the
\* upsert of a page the store did not have, some of it when the error left
\* the scope of the queue; the store does not have the page
C15_Witness ==
    /\ phase = "ready" /\ history # <<>> /\ LastPass.outcome = "failed"
    /\ exc # "none"
    /\ \E id \in PageIds :
          /\ PageUpsertsOf(id) # <<>>
          /\ id \notin DOMAIN db.page
    /\ db = db0

\* the passes that were committed
Committed == {i \in 1..Len(history) : history[i].outcome = "committed"}

\* the start time of the pass committed last, 0 when there is none
LastCommittedStart ==
    IF Committed = {} THEN 0
    ELSE history[CHOOSE i \in Committed : \A j \in Committed : j <= i].start

\* C16: the watermark is the time at which the pass committed last began
\* (its initial value when no pass was committed): it is not the time the
\* pass ended, a failed pass does not write it, and during a pass it keeps
\* the value the pass read; when a pass has just been committed nothing is
\* pending in its queue.
C16_WatermarkIsStartOfLastCommit ==
    /\ watermark = LastCommittedStart
    /\ phase # "ready" => watermark = since
    /\ (phase = "ready" /\ history # <<>> /\ LastPass.outcome = "committed")
          => /\ pc = "closed"
             /\ \A k \in DOMAIN stmt_queues : stmt_queues[k] = <<>>
             /\ watermark = start

\* C16 witness: a second pass was committed; it had read the watermark the
\* first one wrote, and the wiki changed while it ran, so that it ended
\* later than it began
C16_Witness ==
    /\ phase = "ready" /\ Len(history) = 2
    /\ history[1].outcome = "committed"
    /\ LastPass.outcome = "committed"
    /\ LastPass.since = history[1].start /\ LastPass.since > 0
    /\ LastPass.emitted > 0
    /\ LastPass.since < LastPass.start
    /\ LastPass.start < LastPass.finish
    /\ watermark = LastPass.start

\* C18: an INCREMENTAL pass that follows a committed INCREMENTAL pass and
\* reads the watermark it wrote, while recentchanges holds no row of type
\* edit, new or log stamped at that watermark or later, has no candidate,
\* fetches no snapshot, submits no operation to the queue and passes nothing
\* to the connection.
C18_SecondIncrementalIsEmpty ==
    (/\ InPass /\ ~full
     /\ history # <<>> /\ LastPass.outcome = "committed" /\ ~LastPass.full
     /\ since = LastPass.start
     /\ \A c \in rc : ~Wanted(c))
    => /\ candidates = {} /\ pages = {}
       /\ \A id \in PageIds : ~Fetched(id)
       /\ emitted = <<>> /\ gen = <<>>
       /\ conn_log = <<>>
       /\ exc = "none"
       /\ db = db0

\* C18 witness: the first pass, INCREMENTAL, wrote pages to the store and
\* was committed; the second, INCREMENTAL, has ended and its queue is
\* closed while every row of recentchanges is older than its `since`
C18_Witness ==
    /\ phase = "end" /\ pc = "closed" /\ ~full
    /\ Len(history) = 1 /\ LastPass.outcome = "committed" /\ ~LastPass.full
    /\ LastPass.emitted > 0 /\ LastPass.candidates # {}
    /\ since = LastPass.start
    /\ rc # {} /\ \A c \in rc : c.timestamp < since
    /\ db # EmptyDb

\* gen_insert, lines 211-223, run into an empty store: the operations of
\* gen_inserts_from_page for every page the wiki lists, executed in order
FullSync(world) ==
    LET live == {id \in DOMAIN world : ~Has(world[id], "missing")}
        upto[S \in SUBSET live] ==
            IF S = {} THEN EmptyDb
            ELSE LET id == CHOOSE x \in S : \A y \in S : y <= x
                 IN  ConnExecuteAll(upto[S \ {id}],
                        StreamCalls(InsertStream(world[id], "r1", FALSE)))
    IN  upto[live]

\* the page, page_props and page_restrictions tables, random sort keys aside
PageTables(d) ==
    LET e == SansRandom(d)
    IN  <<e.page, e.page_props, e.page_restrictions>>

\* every pass so far was INCREMENTAL and committed, and the last one began
\* after the last change of the wiki
IncrementalUpToDate ==
    /\ phase = "ready" /\ history # <<>>
    /\ \A i \in 1..Len(history) :
          history[i].outcome = "committed" /\ ~history[i].full
    /\ \A c \in rc : c.type \in {"edit", "new", "log"} => c.timestamp < watermark
    /\ rc_oldest = 0

\* C17 as the spec states it: after INCREMENTAL passes from an empty store
\* that together cover every change of the wiki, the page, page_props and
\* page_restrictions tables are those a FULL pass into an empty store
\* leaves, random sort keys aside.
C17_IncrementalConvergesToFull ==
    IncrementalUpToDate => PageTables(db) = PageTables(FullSync(remote))

-----------------------------------------------------------------------------
(* Claims about the two feeds (SpecPass) *)

\* C21 as the spec states it: in a pass whose window the logging table does
\* not cover either (its oldest row is later than `since`), discovery
\* returns no candidate set and the pass is FULL.
C21_LogRetentionExceededFails ==
    (InPass /\ le_oldest > since) => (full /\ candidates = {})

\* C22 as the spec states it: the candidate set of a pass is the union of
\* what get_rcpages(since) and what get_logpages(since) return.
C22_CandidatesAreUnionOfFeeds ==
    phase = "pages"
        => candidates = GetRcPages(rc, remote, since) \cup GetLogPages(le, since)

\* C23: a pass whose window recentchanges covers and whose candidate set is
\* empty is INCREMENTAL, fetches no snapshot, submits nothing to the queue,
\* passes nothing to the connection and raises nothing; it is committed, and
\* the watermark becomes the time at which it began.
C23_EmptyIncrementalIsNoOp ==
    /\ (InPass /\ rc_oldest <= since /\ candidates = {})
          => /\ ~full /\ pages = {} /\ listing = {}
             /\ \A id \in PageIds : ~Fetched(id)
             /\ emitted = <<>> /\ gen = <<>>
             /\ conn_log = <<>>
             /\ exc = "none"
             /\ db = db0
    /\ \A i \in 1..Len(history) :
          (~history[i].full /\ history[i].candidates = {})
             => history[i].outcome = "committed" /\ history[i].emitted = 0
    /\ (phase = "ready" /\ history # <<>>
          /\ ~LastPass.full /\ LastPass.candidates = {})
          => watermark = LastPass.start

\* C23 witness: after a pass that wrote pages to the store, an INCREMENTAL
\* pass with an empty candidate set was committed, and the watermark is
\* later than the one it had read
C23_Witness ==
    /\ phase = "ready" /\ Len(history) = 2
    /\ history[1].outcome = "committed" /\ history[1].emitted > 0
    /\ ~LastPass.full /\ LastPass.candidates = {}
    /\ LastPass.outcome = "committed" /\ LastPass.emitted = 0
    /\ LastPass.since < LastPass.start
    /\ watermark = LastPass.start
    /\ db # EmptyDb

-----------------------------------------------------------------------------
(* Passes over snapshots that lack keys: the API returns, for the pages of  *)
(* an unchanging wiki, snapshots of which some lack a key gen_update reads   *)

\* the keys gen_inserts_from_page subscripts
MandatoryKeys == EntryKeys \cup {"protection"}

\* the snapshots of page id: two that have every mandatory key, one of them
\* without "pageprops", and one for every mandatory key that lacks it
ShapeSnapshots(id) ==
    LET whole == Present(InfoA(id), TRUE, [n \in {"a"} |-> "y"],
                         <<PrDirect("edit", "sysop")>>)
    IN  {whole, Present(InfoB(id), FALSE, EmptyTable, <<>>)}
        \cup {Without(whole, k) : k \in MandatoryKeys}

Shapeless(page) == ~Has(page, "missing") /\ ~(MandatoryKeys \subseteq DOMAIN page)

\* every page was edited at time 1, the watermark is 1, and recentchanges
\* reaches back to time 1 or has lost it
InitShape ==
    /\ chunk_size \in {1, MaxChunk}
    /\ ordered_keys = <<>> /\ stmt_queues = EmptyQueues /\ conn_log = <<>>
    /\ pc = "closed" /\ exc = "none" /\ ncalls = 0 /\ nsub = 0
    /\ first_seen = EmptyQueues /\ round = 0
    /\ db0 \in {EmptyDb, Mirror(PageIds, {"a", "b"}, {"edit"}, 0)}
    /\ db = db0
    /\ generator_stop = TRUE
    /\ full = FALSE
    /\ remote \in {r \in [PageIds -> UNION {ShapeSnapshots(id) : id \in PageIds}] :
                      \A id \in PageIds : r[id] \in ShapeSnapshots(id)}
    /\ pages = {} /\ listing = {}
    /\ phase = "ready"
    /\ gen = <<>> /\ rng = {"r1"} /\ emitted = <<>>
    /\ watermark = 1 /\ since = 0 /\ start = 0 /\ clock = 2
    /\ rc = {[timestamp |-> 1, type |-> "edit", pageid |-> id, title |-> "-"] :
                id \in PageIds}
    /\ le = {}
    /\ rc_oldest \in {1, 2} /\ le_oldest = 0
    /\ requests = <<>>
    /\ candidates = {}
    /\ history = <<>>
    /\ TIdle

NextShape ==
    \/ Start \/ Discover
    \/ FetchPage \/ Yield \/ GenRaises \/ EndPages \/ ListPage \/ EndListing
    \/ SyncExit
    \/ Commit \/ Rollback

SpecShape == InitShape /\ [][NextShape]_vars

\* C24: a pass that meets a present snapshot without one of the mandatory
\* keys ends with KeyError, nothing is fetched or submitted after the error,
\* the pass is rolled back (the store is as before the pass, the watermark
\* as it was read), and a pass run again fails in the same way; a pass whose
\* snapshots have every mandatory key is committed, and for a snapshot
\* without "pageprops" no property upsert is submitted.
C24_ShapelessSnapshotAbortsPass ==
    /\ exc \in {"none", "KeyError"}
    /\ \A i \in 1..Len(emitted) :
          IF Has(emitted[i].op, "raise")
          THEN i = Len(emitted) /\ gen = <<>> /\ pc # "open"
          ELSE emitted[i].op.statement = Sql("insert", "page_props")
                  => Has(remote[emitted[i].page], "pageprops")
    /\ (phase = "ready" /\ history # <<>>)
          => IF \E id \in PageIds : Shapeless(remote[id])
             THEN /\ \A i \in 1..Len(history) : history[i].outcome = "failed"
                  /\ exc = "KeyError"
                  /\ db = db0
                  /\ watermark = LastPass.since /\ watermark = 1
             ELSE /\ \A i \in 1..Len(history) : history[i].outcome = "committed"
                  /\ exc = "none"

\* C24 witness: a pass met a snapshot without "protection" after the
\* connection had executed the upsert of its page, which the store did not
\* have; the pass has failed and the store does not have the page
C24_Witness ==
    /\ phase = "ready" /\ history # <<>> /\ LastPass.outcome = "failed"
    /\ exc = "KeyError"
    /\ \E id \in PageIds :
          /\ ~Has(remote[id], "protection")
          /\ PageUpsertsOf(id) # <<>>
          /\ id \notin DOMAIN db.page
    /\ db = db0 /\ watermark = 1

-----------------------------------------------------------------------------
(* The fetch loop of gen_update, lines 237-248, query by query: the          *)
(* candidates are cut into chunks, every chunk is one call of the API, and   *)
(* the snapshots of the answer go through the generators one after another   *)

FetchIds == {1, 2, 3}

\* self.api.max_ids_per_query
MaxIds == 2

\* ws.utils.iter_chunks(pages, n): the next chunk holds n of the ids that
\* are left, or all of them when they are fewer (a set has no order)
IterChunk(ids, n) ==
    {c \in SUBSET ids : Cardinality(c) = IF Cardinality(ids) < n
                                         THEN Cardinality(ids) ELSE n}

\* the snapshots of the last answer that the loop of line 246 has not
\* reached yet
Pending ==
    IF requests = <<>> \/ requests[Len(requests)].raised THEN {}
    ELSE requests[Len(requests)].ids \cap pages

InitFetch ==
    /\ QInit
    /\ db0 = EmptyDb /\ db = db0
    /\ generator_stop \in BOOLEAN
    /\ full = FALSE
    /\ \E shape \in [FetchIds -> {"missing", "present"}] :
          remote = [id \in FetchIds |->
                      IF shape[id] = "missing" THEN Missing(id)
                      ELSE Present(InfoA(id), TRUE, [n \in {"a"} |-> "y"],
                                   <<PrDirect("edit", "sysop")>>)]
    /\ pages \in SUBSET FetchIds
    /\ listing = {}
    /\ phase = "pages"
    /\ gen = <<>>
    /\ rng = {"r1"}
    /\ emitted = <<>>
    /\ OSingle(FALSE, pages)
    /\ TIdle

\* lines 239-246: the next chunk is requested and the API answers
Request ==
    /\ pc = "open" /\ phase = "pages" /\ gen = <<>>
    /\ pages # {} /\ Pending = {}
    /\ \E chunk \in IterChunk(pages, MaxIds) :
          requests' = Append(requests, [ids |-> chunk, raised |-> FALSE])
    /\ UNCHANGED <<qvars, svars>>
    /\ UNCHANGED <<watermark, since, start, clock, rc, le, rc_oldest, le_oldest,
                   candidates, history,
                   tvars>>

\* line 246: call_api raises; the exception leaves gen_update and the
\* with-block of the queue
RequestRaises ==
    /\ pc = "open" /\ phase = "pages" /\ gen = <<>>
    /\ pages # {} /\ Pending = {}
    /\ \E chunk \in IterChunk(pages, MaxIds) :
          requests' = Append(requests, [ids |-> chunk, raised |-> TRUE])
    /\ pc' = "raised"
    /\ exc' = "ConnectionError"
    /\ UNCHANGED <<chunk_size, ordered_keys, stmt_queues, conn_log, ncalls,
                   nsub, first_seen, round>>
    /\ UNCHANGED svars
    /\ UNCHANGED <<watermark, since, start, clock, rc, le, rc_oldest, le_oldest,
                   candidates, history,
                   tvars>>

\* lines 246-248: the next snapshot of the answer
NextSnapshot ==
    /\ pc = "open" /\ phase = "pages" /\ gen = <<>>
    /\ \E id \in Pending, rnd \in rng :
          /\ gen' = UpdateStream(remote[id], rnd, generator_stop)
          /\ pages' = pages \ {id}
    /\ UNCHANGED <<qvars, db, db0, generator_stop, full, remote, listing,
                   phase, rng, emitted>>
    /\ UNCHANGED ovars

\* the with-block is left and conn.execute raises in the flush of __exit__
ExitRaises ==
    /\ (pc = "open" /\ phase = "end") \/ pc = "raised"
    /\ \E r \in 1..Len(DeferredCalls(ordered_keys, stmt_queues)) : QExit(r)
    /\ db' = ConnExecuteAll(db, SelectSeq(Tail0(conn_log', Len(conn_log)),
                                          LAMBDA c : ~c.raised))
    /\ UNCHANGED <<db0, generator_stop, full, remote, pages, listing, phase,
                   gen, rng, emitted>>
    /\ UNCHANGED ovars

NextFetch ==
    \/ Request \/ RequestRaises \/ NextSnapshot
    \/ Yield \/ GenRaises \/ EndPages
    \/ SyncExit \/ ExitRaises

SpecFetch == InitFetch /\ [][NextFetch]_vars

\* the items of the stream that belong to page id
ItemsOf(id) == SelectSeq(emitted, LAMBDA it : it.page = id)

\* the ids requested so far
Requested == UNION {requests[i].ids : i \in 1..Len(requests)}

\* C26 as the spec states it: every pageids query carries at most
\* max_ids_per_query ids, no id is requested twice, and when the pass has
\* ended without an error of the API or of the connection every candidate
\* was requested and the operations of every candidate, present or missing,
\* are those of gen_inserts_from_page followed by those of
\* gen_deletes_from_page, once.
C26_EveryCandidateFetchedAndFedOnce ==
    /\ \A i \in 1..Len(requests) :
          /\ requests[i].ids # {}
          /\ Cardinality(requests[i].ids) <= MaxIds
          /\ \A j \in 1..Len(requests) :
                i # j => requests[i].ids \cap requests[j].ids = {}
    /\ Requested \subseteq candidates
    /\ (pc = "closed" /\ exc \notin {"ConnectionError", "exit"})
          => /\ Requested = candidates
             /\ \A id \in candidates :
                   ItemsOf(id) = UpdateStream(remote[id], "r1", FALSE)

\* a pageids query of the pass has raised
FetchRaised == \E i \in 1..Len(requests) : requests[i].raised

\* C25 as the spec states it: once a pageids query has raised, it is the
\* last query of the pass (it is not repeated and no other query follows),
\* and its ConnectionError is the exception that leaves the pass, also after
\* the flush of __exit__.
C25_TransportErrorReachesCaller ==
    FetchRaised =>
        /\ requests[Len(requests)].raised
        /\ \A i \in 1..(Len(requests) - 1) : ~requests[i].raised
        /\ pc \in {"raised", "closed"}
        /\ exc = "ConnectionError"

-----------------------------------------------------------------------------
(* Claims about the queue alone (Spec), continued *)

NoDuplicates(s) == \A i, j \in 1..Len(s) : s[i] = s[j] => i = j

\* the keys of s stand in the order of their first submission
InSubmissionOrder(s, seen) ==
    \A i, j \in 1..Len(s) : i < j => seen[s[i]] < seen[s[j]]

\* C27: ordered_keys is append-only and free of duplicates over any sequence
\* of submits and flushes: no step removes or moves a key (a flush only
\* empties stmt_queues), every statement with pending parameter sets is in
\* ordered_keys, the keys stand in the order of their first submission, and
\* the calls of every flush round, however late, come in that order.
C27_KnownKeysAppendOnly ==
    [][/\ IsPrefix(ordered_keys, ordered_keys')
       /\ NoDuplicates(ordered_keys')
       /\ DOMAIN stmt_queues' \subseteq Range(ordered_keys')
       /\ InSubmissionOrder(ordered_keys', first_seen')
       /\ \A i, j \in 1..Len(conn_log') :
             (i < j /\ conn_log'[i].round = conn_log'[j].round) =>
                IndexOf(conn_log'[i].statement, ordered_keys')
                   < IndexOf(conn_log'[j].statement, ordered_keys')]_vars

\* C27 witness: after a first flush that executed two statements, both were
\* submitted again in the opposite order, and the second flush executed them
\* in the order of the first
C27_Witness ==
    \E i, j, k, l \in 1..Len(conn_log) :
        /\ i < j /\ j < k /\ k < l
        /\ conn_log[i].round = conn_log[j].round
        /\ conn_log[k].round = conn_log[l].round
        /\ conn_log[j].round < conn_log[k].round
        /\ conn_log[k].statement = conn_log[i].statement
        /\ conn_log[l].statement = conn_log[j].statement
        /\ conn_log[k].params # <<>> /\ conn_log[l].params # <<>>
        /\ conn_log[l].params[1] < conn_log[k].params[1]
        /\ ~conn_log[j].raised /\ ~conn_log[l].raised
        /\ ordered_keys = <<conn_log[i].statement, conn_log[j].statement>>

\* the parameter sets the connection received with statement s in log, by
\* calls that did not raise
ParamsSeen(log, s) ==
    LET cs == SelectSeq(log, LAMBDA c : c.statement = s /\ ~c.raised)
    IN  Flatten([i \in 1..Len(cs) |-> cs[i].params])

\* parameter sets are numbered as they are submitted
Increasing(ps) == \A i, j \in 1..Len(ps) : i < j => ps[i] < ps[j]

\* what is pending for statement s
PendingFor(s) == IF s \in DOMAIN stmt_queues THEN stmt_queues[s] ELSE <<>>

\* a step in which execute_deferred ran, from execute or from __exit__
FlushRound == chunk_size > 1 /\ Len(conn_log') > Len(conn_log)

\* the calls of the round are one per statement, each carries what was
\* pending for its statement (followed by the parameter sets of the submit
\* that set off the round), and a statement without an entry in stmt_queues
\* and without new parameter sets gets no call
OneBatchPerKey(new) ==
    /\ \A i, j \in 1..Len(new) : new[i].statement = new[j].statement => i = j
    /\ \A i \in 1..Len(new) :
          /\ IsPrefix(PendingFor(new[i].statement), new[i].params)
          /\ Increasing(new[i].params)
          /\ \A m \in 1..Len(new[i].params) :
                \/ m <= Len(PendingFor(new[i].statement))
                \/ new[i].params[m] > nsub
          /\ \/ new[i].statement \in DOMAIN stmt_queues
             \/ \E m \in 1..Len(new[i].params) : new[i].params[m] > nsub

\* C28 as the spec states it: in one flush round every statement with
\* pending parameter sets is executed by exactly one call of conn.execute
\* that carries all of them in the order of their submission, a statement
\* with nothing pending gets no call, and over the whole life of the queue
\* the parameter sets of one statement reach the connection in the order of
\* their submission.
C28_OneBatchPerKeyInSubmissionOrder ==
    [][/\ FlushRound => OneBatchPerKey(NewCalls)
       /\ \A s \in Keys : Increasing(ParamsSeen(conn_log', s))]_vars

\* all the parameter sets the connection received, in the order of the calls
AllParamsSeen == Flatten([i \in 1..Len(conn_log) |-> conn_log[i].params])

\* C29: with chunk_size = 1 nothing is batched: every call of execute makes
\* one call of conn.execute before it returns, with the statement and the
\* parameter sets it was given, nothing is ever pending, the calls reach the
\* connection in the order of the submits whatever their statements, and the
\* flush of __exit__ executes nothing.
C29_ChunkSizeOneIsImmediate ==
    chunk_size = 1 =>
        /\ stmt_queues = EmptyQueues
        /\ ordered_keys = <<>>
        /\ Len(conn_log) = ncalls
        /\ \A i \in 1..Len(conn_log) :
              /\ conn_log[i].cause = "immediate"
              /\ conn_log[i].round = i
              /\ conn_log[i].statement \in DOMAIN first_seen
              /\ first_seen[conn_log[i].statement] <= i
        /\ \A s \in DOMAIN first_seen : conn_log[first_seen[s]].statement = s
        /\ AllParamsSeen = [i \in 1..nsub |-> i]

\* C29 witness: with chunk_size = 1 the scope was left without an exception
\* after four submits of two statements in turn, one of them with two
\* parameter sets and one with none
C29_Witness ==
    /\ chunk_size = 1
    /\ pc = "closed" /\ exc = "none"
    /\ Len(conn_log) = 4
    /\ conn_log[1].statement = conn_log[3].statement
    /\ conn_log[2].statement = conn_log[4].statement
    /\ conn_log[1].statement # conn_log[2].statement
    /\ \E i, j \in 1..4 : Len(conn_log[i].params) = 2 /\ conn_log[j].params = <<>>

\* C30 as the spec states it: chunk_size is positive and is the maximum
\* queue size: whatever the submits, also those that pass several parameter
\* sets at once, no list of stmt_queues ever holds more than chunk_size
\* parameter sets, every list is shorter than chunk_size once execute has
\* returned, and no call of conn.execute made by execute_deferred carries
\* more than chunk_size parameter sets.
C30_ChunkSizeBoundsQueues ==
    /\ chunk_size >= 1
    /\ \A s \in DOMAIN stmt_queues :
          /\ Len(stmt_queues[s]) <= chunk_size
          /\ pc = "open" => Len(stmt_queues[s]) < chunk_size
    /\ \A i \in 1..Len(conn_log) :
          conn_log[i].cause # "immediate" =>
             Len(conn_log[i].params) <= chunk_size

-----------------------------------------------------------------------------
(* Meta: the cache of siteinfo and userinfo properties                      *)

MaxNow == 3
MaxGets == 3
MaxVersion == 1

\* the class attributes a subclass sets (lines 14-17): one property that is
\* not volatile and one that is; "bogus" is a name that is not declared
properties == {"name", "blockinfo"}

volatile_properties == {"blockinfo"}

Attrs == properties \cup {"bogus"}

Timeouts == {0, 1, 2}

\* lines 69-72: the timeout that applies to attr, in seconds
Delta(attr) ==
    IF attr \in volatile_properties THEN volatile_timeout ELSE timeout

\* line 75: self._timestamps.get(attr, utcnow)
TimestampOf(attr, now) ==
    IF attr \in DOMAIN _timestamps THEN _timestamps[attr] ELSE now

\* line 75: the condition under which __getattr__ calls fetch
MutMustFetchAtZero(attr, now) ==
    \/ attr \notin DOMAIN _values
    \/ TimestampOf(attr, now) < now - Delta(attr)

MustFetch(attr, now) ==
    \/ attr \notin DOMAIN _values
    \/ (Delta(attr) # 0 /\ TimestampOf(attr, now) < now - Delta(attr))

\* dict.update, line 56, and the loop of lines 57-58
Updated(d, result) ==
    [k \in DOMAIN d \cup DOMAIN result |->
        IF k \in DOMAIN result THEN result[k] ELSE d[k]]

\* the dict the API answers with: the values the wiki holds now for the
\* properties of ps
Answer(ps) == [k \in ps |-> site[k]]

\* fetch, lines 39-58, when call_api answers with the properties of ps at
\* time t
FetchStores(ps, t) ==
    /\ api_calls' = api_calls + 1
    /\ utcnow' = t
    /\ _values' = Updated(_values, Answer(ps))
    /\ _timestamps' = Updated(_timestamps, [k \in ps |-> t])

\* the times datetime.utcnow() may return in fetch when it returned now in
\* __getattr__
Later(now) == {t \in now..(now + 1) : t <= MaxNow}

InitMeta ==
    /\ QInit /\ chunk_size = 1
    /\ SIdle
    /\ OSingle(FALSE, {})
    /\ XIdle
    /\ timeout \in Timeouts
    /\ volatile_timeout \in Timeouts
    /\ _values = NoValues
    /\ _timestamps = NoValues
    /\ utcnow = 0
    /\ site = [k \in properties |-> 0]
    /\ api_calls = 0
    /\ got = [n |-> 0, attr |-> "-", outcome |-> "none", value |-> 0]

\* time passes
Tick ==
    /\ utcnow < MaxNow
    /\ utcnow' = utcnow + 1
    /\ UNCHANGED <<timeout, volatile_timeout, _values, _timestamps, site,
                   api_calls, got>>
    /\ UNCHANGED <<qvars, svars, wvars, xvars>>

\* the wiki changes the value of a property
SiteChanges ==
    /\ \E k \in properties :
          /\ site[k] < MaxVersion
          /\ site' = [site EXCEPT ![k] = @ + 1]
    /\ UNCHANGED <<timeout, volatile_timeout, _values, _timestamps, utcnow,
                   api_calls, got>>
    /\ UNCHANGED <<qvars, svars, wvars, xvars>>

\* Meta.__getattr__(attr), lines 64-77, with the fetch of lines 35-62
GetAttr ==
    /\ got.n < MaxGets
    /\ \E attr \in Attrs :
          IF attr \notin properties
          THEN /\ got' = [n |-> got.n + 1, attr |-> attr,
                          outcome |-> "AttributeError", value |-> 0]
               /\ UNCHANGED <<_values, _timestamps, utcnow, api_calls>>
          ELSE IF MustFetch(attr, utcnow)
          THEN \/ \* call_api raises: nothing is stored
                  /\ api_calls' = api_calls + 1
                  /\ got' = [n |-> got.n + 1, attr |-> attr,
                             outcome |-> "APIError", value |-> 0]
                  /\ UNCHANGED <<_values, _timestamps, utcnow>>
               \/ \E ps \in SUBSET properties, t \in Later(utcnow) :
                     /\ FetchStores(ps, t)
                     /\ got' = IF attr \in ps
                               THEN [n |-> got.n + 1, attr |-> attr,
                                     outcome |-> "value", value |-> site[attr]]
                               ELSE [n |-> got.n + 1, attr |-> attr,
                                     outcome |-> "KeyError", value |-> 0]
          ELSE /\ got' = [n |-> got.n + 1, attr |-> attr,
                          outcome |-> "value", value |-> _values[attr]]
               /\ UNCHANGED <<_values, _timestamps, utcnow, api_calls>>
    /\ UNCHANGED <<timeout, volatile_timeout, site>>
    /\ UNCHANGED <<qvars, svars, wvars, xvars>>

NextMeta == Tick \/ SiteChanges \/ GetAttr

SpecMeta == InitMeta /\ [][NextMeta]_vars

\* a step that is one call of Meta.__getattr__
GetAttrStep == got'.n = got.n + 1

\* a value of attr is cached
Cached(attr) == attr \in DOMAIN _values

\* the timeout of attr is not 0 and the value of attr was fetched more than
\* that timeout ago
Outdated(attr) ==
    /\ Delta(attr) # 0
    /\ attr \in DOMAIN _timestamps
    /\ _timestamps[attr] < utcnow - Delta(attr)

\* C31: Meta.__getattr__ of a declared property calls the API exactly once
\* when no value is cached or when the timeout that applies (volatile_timeout
\* for a volatile property, timeout otherwise) is not 0 and the value was
\* fetched more than that timeout ago; otherwise it returns the cached value
\* and calls nothing, so with a timeout of 0 a cached value is never fetched
\* again.  A name that is not declared raises AttributeError, calls nothing
\* and leaves the cache as it was.
C31_GetAttrFetchesWhenMissingOrOutdated ==
    [][GetAttrStep =>
          LET attr == got'.attr
          IN  /\ (attr \in properties /\ (~Cached(attr) \/ Outdated(attr))) =>
                    api_calls' = api_calls + 1
              /\ (attr \in properties /\ Cached(attr) /\ ~Outdated(attr)) =>
                    /\ api_calls' = api_calls
                    /\ got'.outcome = "value"
                    /\ got'.value = _values[attr]
                    /\ UNCHANGED <<_values, _timestamps>>
              /\ (attr \in properties /\ Cached(attr) /\ Delta(attr) = 0) =>
                    api_calls' = api_calls
              /\ attr \notin properties =>
                    /\ got'.outcome = "AttributeError"
                    /\ api_calls' = api_calls
                    /\ UNCHANGED <<_values, _timestamps>>]_vars

\* C31 witness: the volatile property was fetched, fetched again once it was
\* older than volatile_timeout, and the third call returned the cached value,
\* which the wiki has changed since, because its age was equal to the
\* timeout, not greater
C31_Witness ==
    /\ got.n = 3 /\ api_calls = 2
    /\ got.attr = "blockinfo" /\ got.outcome = "value"
    /\ volatile_timeout = 1
    /\ DOMAIN _values = {"blockinfo"}
    /\ _timestamps["blockinfo"] = 2 /\ utcnow = 3
    /\ got.value # site["blockinfo"]

-----------------------------------------------------------------------------
(* ExtlinkStatusChecker.check_url and its three caches                      *)

MaxChecks == 4

Urls == {"u1", "u2"}

\* response.status_code: the values around the tests of lines 144 and 147
Statuses == {199, 200, 299, 300, 399, 400, 499, 500}

\* exceptions of requests that session.get raises, with their base classes
ExceptionClasses == {"ConnectionError", "SSLError", "TooManyRedirects",
                     "ReadTimeout", "RequestException"}

Bases(class) ==
    CASE class = "ConnectionError"  -> {"ConnectionError", "RequestException"}
      [] class = "SSLError"         -> {"SSLError", "ConnectionError",
                                        "RequestException"}
      [] class = "TooManyRedirects" -> {"TooManyRedirects", "RequestException"}
      [] class = "ReadTimeout"      -> {"ReadTimeout", "Timeout",
                                        "RequestException"}
      [] OTHER                      -> {"RequestException"}

\* str(e) of a ConnectionError, word by word: what getaddrinfo reports for a
\* name that does not exist, for a resolver that cannot be reached, and a
\* failure that is not one of name resolution
Messages ==
    {[text |-> <<"Name", "or", "service", "not", "known">>, dns |-> TRUE],
     [text |-> <<"Temporary", "failure", "in", "name", "resolution">>,
      dns |-> TRUE],
     [text |-> <<"Connection", "refused">>, dns |-> FALSE]}

\* str.lower, word by word
LowerWord(w) ==
    CASE w = "Name"       -> "name"
      [] w = "Temporary"  -> "temporary"
      [] w = "Connection" -> "connection"
      [] OTHER            -> w

Lower(text) == [i \in 1..Len(text) |-> LowerWord(text[i])]

\* needle in hay
Contains(needle, hay) ==
    \E k \in 0..(Len(hay) - Len(needle)) :
        \A i \in 1..Len(needle) : hay[k + i] = needle[i]

\* what one call of session.get may end with
Outcomes ==
    {[kind |-> "response", status |-> st, class |-> "-", message |-> <<>>,
      dns |-> FALSE] : st \in Statuses}
    \cup {[kind |-> "exception", status |-> 0, class |-> c,
           message |-> m.text, dns |-> m.dns] :
             c \in {"ConnectionError"}, m \in Messages}
    \cup {[kind |-> "exception", status |-> 0, class |-> c,
           message |-> <<"-">>, dns |-> FALSE] :
             c \in ExceptionClasses \ {"ConnectionError"}}

\* lines 115-120: the verdict of the caches, "miss" when url is in none
MutCachedVerdictNoIndeterminate(url) ==
    IF url \in cache_valid_urls THEN "True"
    ELSE IF url \in cache_invalid_urls THEN "False"
    ELSE "miss"

CachedVerdict(url) ==
    IF url \in cache_valid_urls THEN "True"
    ELSE IF url \in cache_invalid_urls THEN "False"
    ELSE IF url \in cache_indeterminate_urls THEN "None"
    ELSE "miss"

\* lines 127-154: the cache the outcome of the request puts the url in
\* ("none": it is not cached)
CacheFor(o) ==
    IF o.kind = "exception"
    THEN IF "ConnectionError" \in Bases(o.class)
         THEN IF Contains(<<"name", "or", "service", "not", "known">>,
                          Lower(o.message))
              THEN "invalid" ELSE "none"
         ELSE IF "TooManyRedirects" \in Bases(o.class) THEN "invalid"
         ELSE "none"
    ELSE IF o.status >= 200 /\ o.status < 300 THEN "valid"
    ELSE IF o.status >= 400 /\ o.status < 500 THEN "invalid"
    ELSE "indeterminate"

\* lines 127-154: the value check_url returns for the outcome
VerdictFor(o) ==
    IF CacheFor(o) = "valid" THEN "True"
    ELSE IF CacheFor(o) = "invalid" THEN "False"
    ELSE "None"

\* nrequests.get(url, 0)
RequestsOf(counts, url) == IF url \in DOMAIN counts THEN counts[url] ELSE 0

InitLinks ==
    /\ QInit /\ chunk_size = 1
    /\ SIdle
    /\ OSingle(FALSE, {})
    /\ MIdle
    /\ XIdle

\* check_url(url), lines 114-154
CheckUrl ==
    /\ checked.n < MaxChecks
    /\ \E url \in Urls :
          IF CachedVerdict(url) # "miss"
          THEN /\ checked' = [n |-> checked.n + 1, url |-> url,
                              verdict |-> CachedVerdict(url),
                              requested |-> FALSE,
                              outcome |-> [kind |-> "none", status |-> 0,
                                           class |-> "-", message |-> <<>>,
                                           dns |-> FALSE]]
               /\ UNCHANGED <<cache_valid_urls, cache_invalid_urls,
                              cache_indeterminate_urls, nrequests>>
          ELSE \E o \in Outcomes :
                 /\ nrequests' = Updated(nrequests,
                        [u \in {url} |-> RequestsOf(nrequests, url) + 1])
                 /\ cache_valid_urls' =
                        IF CacheFor(o) = "valid"
                        THEN cache_valid_urls \cup {url} ELSE cache_valid_urls
                 /\ cache_invalid_urls' =
                        IF CacheFor(o) = "invalid"
                        THEN cache_invalid_urls \cup {url}
                        ELSE cache_invalid_urls
                 /\ cache_indeterminate_urls' =
                        IF CacheFor(o) = "indeterminate"
                        THEN cache_indeterminate_urls \cup {url}
                        ELSE cache_indeterminate_urls
                 /\ checked' = [n |-> checked.n + 1, url |-> url,
                                verdict |-> VerdictFor(o),
                                requested |-> TRUE, outcome |-> o]
    /\ UNCHANGED <<qvars, svars, wvars, mvars>>

NextLinks == CheckUrl

SpecLinks == InitLinks /\ [][NextLinks]_vars

\* a step that is one call of check_url
CheckStep == checked'.n = checked.n + 1

PairwiseDisjoint(a, b, c) == a \cap b = {} /\ a \cap c = {} /\ b \cap c = {}

\* the verdict of the cache that holds url
VerdictOfCache(url) ==
    IF url \in cache_valid_urls THEN "True"
    ELSE IF url \in cache_invalid_urls THEN "False" ELSE "None"

AllCached == cache_valid_urls \cup cache_invalid_urls
                \cup cache_indeterminate_urls

\* the caches are pairwise disjoint, no url leaves a cache, and a check of a
\* cached url returns the verdict of its cache and makes no request
CachesAreFinal ==
    /\ PairwiseDisjoint(cache_valid_urls', cache_invalid_urls',
                        cache_indeterminate_urls')
    /\ cache_valid_urls \subseteq cache_valid_urls'
    /\ cache_invalid_urls \subseteq cache_invalid_urls'
    /\ cache_indeterminate_urls \subseteq cache_indeterminate_urls'
    /\ (CheckStep /\ checked'.url \in AllCached) =>
          /\ checked'.verdict = VerdictOfCache(checked'.url)
          /\ ~checked'.requested
          /\ nrequests' = nrequests
    /\ \A u \in AllCached : RequestsOf(nrequests', u) = RequestsOf(nrequests, u)

\* C32 as stated: the three caches are pairwise disjoint, a url never leaves
\* its cache nor moves to another, every later check_url of it returns the
\* verdict of its cache without a request, and at most one request is ever
\* made for a url that got cached.
C32_AtMostOneRequestForCachedUrl ==
    [][/\ CachesAreFinal
       /\ \A u \in cache_valid_urls' \cup cache_invalid_urls'
                    \cup cache_indeterminate_urls' :
             RequestsOf(nrequests', u) <= 1]_vars

\* C32 (amended): the three caches are pairwise disjoint, a url never leaves
\* its cache nor moves to another, and every later check_url of it returns
\* the verdict of its cache without a request: the request whose outcome put
\* the url in a cache is the last one made for it (requests whose outcome
\* was not cached may have been made before it).
C32_NoRequestOnceCached ==
    [][/\ CachesAreFinal
       /\ \A u \in Urls :
             RequestsOf(nrequests', u) > RequestsOf(nrequests, u) =>
                u \notin AllCached]_vars

\* C32 witness: u1 was requested twice, the first time with an outcome that
\* is not cached, the second request put it in the cache of invalid urls,
\* and the check after that returned False without a request; u2 is in
\* another cache
C32_Witness ==
    /\ checked.n = 4
    /\ checked.url = "u1" /\ ~checked.requested /\ checked.verdict = "False"
    /\ "u1" \in cache_invalid_urls
    /\ RequestsOf(nrequests, "u1") = 2
    /\ "u2" \in cache_indeterminate_urls

\* C33 as stated: check_url of a url that is in no cache makes one request
\* and classifies the url by its outcome: a status 2xx returns True and caches
\* the url as valid; a status 4xx, a failure of name resolution and
\* TooManyRedirects return False and cache it as invalid; any other status
\* returns None and caches it as indeterminate; any other ConnectionError or
\* RequestException returns None and leaves the three caches as they were.
C33_ClassifiedByOutcome ==
    [][(CheckStep /\ checked'.url \notin AllCached) =>
          LET o   == checked'.outcome
              url == checked'.url
              same == UNCHANGED <<cache_valid_urls, cache_invalid_urls,
                                  cache_indeterminate_urls>>
          IN  /\ checked'.requested
              /\ RequestsOf(nrequests', url) = RequestsOf(nrequests, url) + 1
              /\ IF o.kind = "response"
                 THEN IF o.status \in 200..299
                      THEN /\ checked'.verdict = "True"
                           /\ cache_valid_urls' = cache_valid_urls \cup {url}
                           /\ UNCHANGED <<cache_invalid_urls,
                                          cache_indeterminate_urls>>
                      ELSE IF o.status \in 400..499
                      THEN /\ checked'.verdict = "False"
                           /\ cache_invalid_urls' = cache_invalid_urls \cup {url}
                           /\ UNCHANGED <<cache_valid_urls,
                                          cache_indeterminate_urls>>
                      ELSE /\ checked'.verdict = "None"
                           /\ cache_indeterminate_urls' =
                                 cache_indeterminate_urls \cup {url}
                           /\ UNCHANGED <<cache_valid_urls, cache_invalid_urls>>
                 ELSE IF o.dns \/ o.class = "TooManyRedirects"
                      THEN /\ checked'.verdict = "False"
                           /\ cache_invalid_urls' = cache_invalid_urls \cup {url}
                           /\ UNCHANGED <<cache_valid_urls,
                                          cache_indeterminate_urls>>
                      ELSE /\ checked'.verdict = "None"
                           /\ same]_vars

====
